---- MODULE Spec2Model ----
(***************************************************************************)
(* cloudflaredb: the repositories (users, rooms, room_types, user_rooms)   *)
(* and the HTTP handlers in front of them, over the two SQL backends the   *)
(* program can be configured with (sqlite3 and cfd1).                      *)
(*                                                                         *)
(* The database is the state.  Every repository method that issues one SQL *)
(* statement is one atomic step; AssignUserToRoom issues two (the COUNT    *)
(* check and the INSERT) and is two steps, so that callers interleave      *)
(* between them.  Nothing in the program serialises callers.               *)
(***************************************************************************)
EXTENDS Integers, Sequences, FiniteSets, TLC

VARIABLES
    driver,      \* cfg.DatabaseDriver: "sqlite3" or "cfd1"
    users,       \* table users:      id -> [external_id, created_at, updated_at]
    rooms,       \* table rooms:      id -> [name, description, room_type_id, created_at, updated_at]
    room_types,  \* table room_types: id -> [size, style, created_at, updated_at]
    user_rooms,  \* table user_rooms: set of [id, user_id, room_id, created_at]
    seq,         \* AUTOINCREMENT high-water mark of each table (sqlite_sequence)
    clock,       \* what time.Now() returns
    pc,          \* per caller: the AssignUserToRoom call it is inside, if any
    last         \* the call that returned most recently, with what it returned

vars == <<driver, users, rooms, room_types, user_rooms, seq, clock, pc, last>>

tables == <<users, rooms, room_types, user_rooms, seq>>

----------------------------------------------------------------------------
(* Bounds of the model *)

MaxUsers == 2       \* ids the users sequence hands out
MaxRooms == 2       \* ids the rooms sequence hands out
MaxRoomTypes == 1   \* ids the room_types sequence hands out
MaxUserRooms == 2   \* ids the user_rooms sequence hands out
MaxClock == 1       \* instants time.Now() returns: 0..MaxClock

Callers == {"c1", "c2"}

UserIds == 1..MaxUsers
RoomIds == 1..MaxRooms
RoomTypeIds == 1..MaxRoomTypes

ExternalIDs == {"ext-1", "ext-2"}
RoomNames == {"A", "B"}
AssignRoomNames == {"A"}   \* the names SpecAssign creates rooms with

Descriptions == {""}
UpdateDescriptions == {"quiet"}   \* the descriptions updates set
UpdateSizes == {"small"}          \* the sizes updates set
UpdateStyles == {"rustic"}        \* the styles updates set
Sizes == {"large"}
Styles == {"modern"}

\* a nullable column or a Go *int64: absent, or one value
NULL == <<>>
Some(v) == <<v>>

----------------------------------------------------------------------------
(* Errors.  A Go error is its message; fmt.Errorf("...: %w", err) puts a    *)
(* prefix before the driver's message.  An error is modelled as the        *)
(* sequence of the message's parts, Nil as the empty sequence.             *)

Nil == <<>>

UniqueFailed == "UNIQUE constraint failed"
ForeignKeyFailed == "FOREIGN KEY constraint failed"

Wrap(prefix, cause) == <<prefix, cause>>

ErrUserNotFound == <<"user not found">>
ErrRoomNotFound == <<"room not found">>
ErrRoomTypeNotFound == <<"room type not found">>
ErrAlreadyAssigned == <<"user already assigned to this room">>
ErrNotAssigned == <<"user not assigned to this room">>
ErrNotAssignedAny == <<"user not assigned to any rooms">>

\* strings.Contains(part, needle) for the needles the handlers look for
PartContains(part, needle) ==
    CASE needle = "not found" ->
            part \in {"user not found", "room not found", "room type not found",
                      "database not found"}
      [] needle = "not assigned" ->
            part \in {"user not assigned to this room", "user not assigned to any rooms"}
      [] needle = UniqueFailed -> part = UniqueFailed
      [] OTHER -> FALSE

\* strings.Contains(err.Error(), needle)
Contains(err, needle) == \E i \in 1..Len(err) : PartContains(err[i], needle)

----------------------------------------------------------------------------
(* HTTP statuses *)

StatusOK == 200
StatusCreated == 201
StatusNoContent == 204
StatusBadRequest == 400
StatusNotFound == 404
StatusConflict == 409
StatusInternalServerError == 500
NoStatus == 0     \* a repository method no handler calls

----------------------------------------------------------------------------
(* The storage engine: what the schema's constraints do to a statement *)

\* sql.Open(driver, dsn) and nothing more: no PRAGMA foreign_keys and no
\* _foreign_keys in the DSN, so the sqlite3 driver leaves SQLite's default
\* (REFERENCES clauses parsed, not enforced); D1 always enforces them.
ForeignKeys == driver = "cfd1"

\* (INTEGER PRIMARY KEY without AUTOINCREMENT: one more than the largest
\* id stored)
NextIdRowid(tbl, counter) ==
    IF DOMAIN tbl = {} THEN 1
    ELSE (CHOOSE m \in DOMAIN tbl : \A j \in DOMAIN tbl : j <= m) + 1

\* INTEGER PRIMARY KEY AUTOINCREMENT: one more than the largest id the table
\* ever held, which SQLite keeps in sqlite_sequence
NextId(tbl, counter) == counter + 1

\* (a schema without UNIQUE on users.external_id)
UsersUniqueDropped(id, ext) == TRUE

\* users.external_id TEXT NOT NULL UNIQUE: may row id carry ext?
UsersUnique(id, ext) ==
    \A j \in DOMAIN users : j # id => users[j].external_id # ext

\* (a schema without the UNIQUE(user_id, room_id) constraint)
UserRoomsUniqueDropped(u, r) == TRUE

\* user_rooms UNIQUE(user_id, room_id): may a new row carry (u, r)?
UserRoomsUnique(u, r) ==
    ~\E x \in user_rooms : x.user_id = u /\ x.room_id = r

\* user_rooms FOREIGN KEY (user_id) / (room_id): may a new row carry (u, r)?
UserRoomsReferences(u, r) ==
    ForeignKeys => (u \in DOMAIN users /\ r \in DOMAIN rooms)

\* rooms FOREIGN KEY (room_type_id): may a room carry reference rt?
RoomsReferences(rt) ==
    (ForeignKeys /\ rt # NULL) => rt[1] \in DOMAIN room_types

\* user_rooms after DELETE FROM users WHERE id = ? (ON DELETE CASCADE)
CascadeUser(id) ==
    IF ForeignKeys THEN {x \in user_rooms : x.user_id # id} ELSE user_rooms

\* user_rooms after DELETE FROM rooms WHERE id = ? (ON DELETE CASCADE)
CascadeRoom(id) ==
    IF ForeignKeys THEN {x \in user_rooms : x.room_id # id} ELSE user_rooms

\* rooms after DELETE FROM room_types WHERE id = ? (ON DELETE SET NULL)
SetNullRoomType(id) ==
    IF ForeignKeys
    THEN [i \in DOMAIN rooms |->
            IF rooms[i].room_type_id = Some(id)
            THEN [rooms[i] EXCEPT !.room_type_id = NULL]
            ELSE rooms[i]]
    ELSE rooms

\* (a DELETE that removes no row)
WithoutNothing(tbl, id) == tbl

\* a table without row id
Without(tbl, id) == [i \in DOMAIN tbl \ {id} |-> tbl[i]]

----------------------------------------------------------------------------
(* The HTTP handlers: the status each answers a repository result with *)

CreateUserStatus(err) ==
    IF err # Nil
    THEN IF Contains(err, UniqueFailed) THEN StatusConflict
         ELSE StatusInternalServerError
    ELSE StatusCreated

UpdateRoomStatus(err) ==
    IF err # Nil
    THEN IF Contains(err, "not found") THEN StatusNotFound
         ELSE StatusInternalServerError
    ELSE StatusOK

UpdateUserStatus(err) ==
    IF err # Nil
    THEN IF Contains(err, "not found") THEN StatusNotFound
         ELSE StatusInternalServerError
    ELSE StatusOK

DeleteUserStatus(err) ==
    IF err # Nil
    THEN IF Contains(err, "not found") THEN StatusNotFound
         ELSE StatusInternalServerError
    ELSE StatusNoContent

GetUserStatus(err) ==
    IF err # Nil
    THEN IF Contains(err, "not found") THEN StatusNotFound
         ELSE StatusInternalServerError
    ELSE StatusOK

GetRoomStatus(err) ==
    IF err # Nil
    THEN IF Contains(err, "not found") THEN StatusNotFound
         ELSE StatusInternalServerError
    ELSE StatusOK

GetRoomUsersStatus(err) ==
    IF err # Nil
    THEN IF Contains(err, "not found") THEN StatusNotFound
         ELSE StatusInternalServerError
    ELSE StatusOK

GetUserRoomsStatus(err) ==
    IF err # Nil THEN StatusInternalServerError ELSE StatusOK

ListUsersStatus(err) ==
    IF err # Nil THEN StatusInternalServerError ELSE StatusOK

ListRoomsStatus(err) ==
    IF err # Nil THEN StatusInternalServerError ELSE StatusOK

CreateRoomStatus(err) ==
    IF err # Nil THEN StatusInternalServerError ELSE StatusCreated

DeleteRoomStatus(err) ==
    IF err # Nil
    THEN IF Contains(err, "not found") THEN StatusNotFound
         ELSE StatusInternalServerError
    ELSE StatusNoContent

AssignStatus(err) ==
    IF err # Nil THEN StatusInternalServerError ELSE StatusOK

RemoveStatus(err) ==
    IF err # Nil
    THEN IF Contains(err, "not assigned") THEN StatusNotFound
         ELSE StatusInternalServerError
    ELSE StatusNoContent

\* what a call returned: the operation, its arguments (id: the user or the
\* entity, and for a create the generated id; rid: the room or room type;
\* s: the string argument), the repository's error and the HTTP status
Returned(op, id, rid, s, err, status) ==
    [op |-> op, id |-> id, rid |-> rid, s |-> s, err |-> err, status |-> status,
     rec |-> <<>>, row |-> <<>>]

\* the same, for a call that also returned a record
ReturnedRecord(op, id, rid, s, err, status, rec) ==
    [Returned(op, id, rid, s, err, status) EXCEPT !.rec = <<rec>>]

Idle == [op |-> "idle", u |-> 0, r |-> 0]

----------------------------------------------------------------------------
(* The row scanner.  A row is what database/sql hands to Scan: a sequence   *)
(* of columns, each a name and a driver.Value.  A driver.Value is nil, an  *)
(* int64, a float64, a bool, a []byte, a string or a time.Time.            *)

Instants == 0..MaxClock

ZeroTime == -1    \* time.Time{}: before every instant the clock returns

WNil == [t |-> "nil", n |-> 0, s |-> ""]
WInt64(n) == [t |-> "int64", n |-> n, s |-> ""]
WFloat64(n) == [t |-> "float64", n |-> n, s |-> ""]   \* an integral float
WBool == [t |-> "bool", n |-> 1, s |-> ""]
WBytes(s) == [t |-> "[]byte", n |-> 0, s |-> s]
WString(s) == [t |-> "string", n |-> 0, s |-> s]
WTime(n) == [t |-> "time.Time", n |-> n, s |-> ""]

Column(col, val) == [col |-> col, val |-> val]

\* the row with the declared column names carrying vals, sent in order p
WireRow(names, vals, p) == [i \in 1..Len(names) |-> Column(names[p[i]], vals[p[i]])]

\* the formats NullableTime.Scan and parseTimeValue try, in their order
formats ==
    << "2006-01-02T15:04:05Z07:00",
       "2006-01-02T15:04:05.999999999Z07:00",
       "2006-01-02 15:04:05",
       "2006-01-02T15:04:05",
       "2006-01-02 15:04:05.999999999",
       "2006-01-02T15:04:05.999999999" >>

\* Time.Format(layout) of instant n (a whole second of 1970-01-01, UTC)
TimeFormat(layout, n) ==
    CASE layout \in {formats[1], formats[2]} ->
            "1970-01-01T00:00:0" \o ToString(n) \o "Z"
      [] layout \in {formats[3], formats[5]} ->
            "1970-01-01 00:00:0" \o ToString(n)
      [] layout \in {formats[4], formats[6]} ->
            "1970-01-01T00:00:0" \o ToString(n)

\* time.Parse(layout, v): <<>> for an error, else the instant
TimeParse(layout, v) ==
    LET hits == {n \in Instants : TimeFormat(layout, n) = v} IN
    IF hits = {} THEN <<>> ELSE <<CHOOSE n \in hits : TRUE>>

\* the loop over formats: the first format that parses wins
ParseFormats(v) ==
    IF \A i \in 1..Len(formats) : TimeParse(formats[i], v) = <<>> THEN <<>>
    ELSE TimeParse(formats[CHOOSE i \in 1..Len(formats) :
                              /\ TimeParse(formats[i], v) # <<>>
                              /\ \A j \in 1..(i - 1) : TimeParse(formats[j], v) = <<>>], v)

ErrParseTimestamp == <<"failed to parse timestamp string">>
ErrNullableTimeType == <<"unsupported type for NullableTime">>
ErrConvertNull == <<"sql: Scan error: converting NULL is unsupported">>
ErrConvert == <<"sql: Scan error: converting driver.Value type">>
ErrScanArity == <<"sql: expected destination arguments in Scan">>

\* NullableTime.Scan(value)
NullableTimeScan(value) ==
    CASE value.t = "nil" -> [err |-> Nil, Valid |-> FALSE, Time |-> ZeroTime]
      [] value.t = "time.Time" -> [err |-> Nil, Valid |-> TRUE, Time |-> value.n]
      [] value.t \in {"string", "[]byte"} ->
            LET parsed == ParseFormats(value.s) IN
            IF parsed # <<>>
            THEN [err |-> Nil, Valid |-> TRUE, Time |-> parsed[1]]
            ELSE [err |-> ErrParseTimestamp, Valid |-> TRUE, Time |-> ZeroTime]
      [] OTHER -> [err |-> ErrNullableTimeType, Valid |-> TRUE, Time |-> ZeroTime]

\* parseTimeValue(val)
parseTimeValue(val) ==
    CASE val.t = "time.Time" -> val.n
      [] val.t = "string" ->
            LET parsed == ParseFormats(val.s) IN
            IF parsed # <<>> THEN parsed[1] ELSE ZeroTime
      [] OTHER -> ZeroTime

\* rows.Scan into a *float64 (database/sql's conversion): integers and
\* floats convert, text converts when it is a number, nothing else does
ConvertFloat64(val) ==
    CASE val.t = "nil" -> [err |-> ErrConvertNull, f |-> 0]
      [] val.t \in {"int64", "float64"} -> [err |-> Nil, f |-> val.n]
      [] val.t \in {"string", "[]byte"} ->
            IF \E n \in 0..9 : ToString(n) = val.s
            THEN [err |-> Nil, f |-> CHOOSE n \in 0..9 : ToString(n) = val.s]
            ELSE [err |-> ErrConvert, f |-> 0]
      [] OTHER -> [err |-> ErrConvert, f |-> 0]

\* rows.Scan into a *string (database/sql's conversion): every value but
\* NULL has a text
ConvertString(val) ==
    CASE val.t = "nil" -> [err |-> ErrConvertNull, s |-> ""]
      [] val.t \in {"string", "[]byte"} -> [err |-> Nil, s |-> val.s]
      [] val.t \in {"int64", "float64"} -> [err |-> Nil, s |-> ToString(val.n)]
      [] val.t = "bool" -> [err |-> Nil, s |-> "true"]
      [] val.t = "time.Time" -> [err |-> Nil, s |-> TimeFormat(formats[2], val.n)]

\* what a scan returns: the error, and the destination fields as it left them
Scanned(err, rec) == [err |-> err, rec |-> rec]

\* the first error of a sequence of conversions, Nil when there is none
FirstError(errs) ==
    LET bad == {i \in 1..Len(errs) : errs[i] # Nil} IN
    IF bad = {} THEN Nil ELSE errs[CHOOSE i \in bad : \A j \in bad : i <= j]

\* &models.User{}, &models.Room{}, &models.RoomType{}
ZeroUser ==
    [id |-> 0, external_id |-> "", created_at |-> ZeroTime, updated_at |-> ZeroTime]
ZeroRoom ==
    [id |-> 0, name |-> "", description |-> "", room_type_id |-> NULL,
     created_at |-> ZeroTime, updated_at |-> ZeroTime]
ZeroRoomType ==
    [id |-> 0, size |-> "", style |-> "", created_at |-> ZeroTime, updated_at |-> ZeroTime]

\* (the id column read as a float64 only)
ColumnInt64FloatOnly(val, old) ==
    IF val.t = "float64" THEN val.n ELSE old

\* the type switch on an integer column: float64, int64 (and int, which no
\* driver.Value is); any other shape leaves the field as it was
ColumnInt64(val, old) ==
    IF val.t \in {"float64", "int64"} THEN val.n ELSE old

\* if s, ok := val.(string); ok
ColumnString(val, old) ==
    IF val.t = "string" THEN val.s ELSE old

\* one iteration of scanUserWithColumns' loop over cols
UserColumn(dest, col, val) ==
    IF val.t = "nil" THEN dest
    ELSE CASE col = "id" -> [dest EXCEPT !.id = ColumnInt64(val, @)]
           [] col = "external_id" -> [dest EXCEPT !.external_id = ColumnString(val, @)]
           [] col = "created_at" -> [dest EXCEPT !.created_at = parseTimeValue(val)]
           [] col = "updated_at" -> [dest EXCEPT !.updated_at = parseTimeValue(val)]
           [] OTHER -> dest

\* the columns of the SELECT lists, in their declared order
UserColumnNames == <<"id", "external_id", "created_at", "updated_at">>
RoomColumnNames ==
    <<"id", "name", "description", "room_type_id", "created_at", "updated_at">>
RoomTypeColumnNames == <<"id", "size", "style", "created_at", "updated_at">>

\* (a loop that takes the i-th value for the i-th declared column)
RECURSIVE UserColumnsByPosition(_, _, _)
UserColumnsByPosition(row, i, dest) ==
    IF i > Len(row) THEN dest
    ELSE UserColumnsByPosition(row, i + 1,
                               UserColumn(dest, UserColumnNames[i], row[i].val))

RECURSIVE UserColumns(_, _, _)
UserColumns(row, i, dest) ==
    IF i > Len(row) THEN dest
    ELSE UserColumns(row, i + 1, UserColumn(dest, row[i].col, row[i].val))

\* scanUserWithColumns(scanner, &user.ID, ...): never an error of its own
scanUserWithColumns(row, dest) == Scanned(Nil, UserColumns(row, 1, dest))

\* scanUser: by column name when the handle reports its columns (*sql.Rows),
\* else by position, in the order id, external_id, created_at, updated_at
scanUser(handle, row, dest) ==
    IF handle = "*sql.Rows" THEN scanUserWithColumns(row, dest)
    ELSE IF Len(row) # 4 THEN Scanned(ErrScanArity, dest)
    ELSE LET idFloat == ConvertFloat64(row[1].val)
             externalID == ConvertString(row[2].val)
             createdAtNT == NullableTimeScan(row[3].val)
             updatedAtNT == NullableTimeScan(row[4].val)
             err == FirstError(<<idFloat.err, externalID.err,
                                 createdAtNT.err, updatedAtNT.err>>)
         IN IF err # Nil THEN Scanned(err, dest)
            ELSE Scanned(Nil,
                   [id |-> idFloat.f,
                    external_id |-> externalID.s,
                    created_at |-> IF createdAtNT.Valid THEN createdAtNT.Time
                                   ELSE dest.created_at,
                    updated_at |-> IF updatedAtNT.Valid THEN updatedAtNT.Time
                                   ELSE dest.updated_at])

\* the type switch on room_type_id: a pointer to the integer
ColumnRef(val, old) ==
    IF val.t \in {"float64", "int64"} THEN Some(val.n) ELSE old

\* one iteration of scanRoomWithColumns' loop over cols
RoomColumn(dest, col, val) ==
    IF val.t = "nil" THEN dest
    ELSE CASE col = "id" -> [dest EXCEPT !.id = ColumnInt64(val, @)]
           [] col = "name" -> [dest EXCEPT !.name = ColumnString(val, @)]
           [] col = "description" -> [dest EXCEPT !.description = ColumnString(val, @)]
           [] col = "room_type_id" -> [dest EXCEPT !.room_type_id = ColumnRef(val, @)]
           [] col = "created_at" -> [dest EXCEPT !.created_at = parseTimeValue(val)]
           [] col = "updated_at" -> [dest EXCEPT !.updated_at = parseTimeValue(val)]
           [] OTHER -> dest

RECURSIVE RoomColumns(_, _, _)
RoomColumns(row, i, dest) ==
    IF i > Len(row) THEN dest
    ELSE RoomColumns(row, i + 1, RoomColumn(dest, row[i].col, row[i].val))

\* scanRoomWithColumns
scanRoomWithColumns(row, dest) == Scanned(Nil, RoomColumns(row, 1, dest))

\* (a fallback that stores the zero value for what is not a float64)
PositionalRefZero(val, old) ==
    IF val.t = "float64" THEN Some(val.n) ELSE Some(0)

\* the fallback's handling of roomTypeIDFloat, an interface{} that Scan
\* fills with the driver's value as it is: only a float64 is taken
PositionalRef(val, old) ==
    IF val.t # "nil" /\ val.t = "float64" THEN Some(val.n) ELSE old

\* scanRoom: by column name for *sql.Rows, else by position, in the order
\* id, name, description, room_type_id, created_at, updated_at
scanRoom(handle, row, dest) ==
    IF handle = "*sql.Rows" THEN scanRoomWithColumns(row, dest)
    ELSE IF Len(row) # 6 THEN Scanned(ErrScanArity, dest)
    ELSE LET idFloat == ConvertFloat64(row[1].val)
             name == ConvertString(row[2].val)
             description == ConvertString(row[3].val)
             createdAtNT == NullableTimeScan(row[5].val)
             updatedAtNT == NullableTimeScan(row[6].val)
             err == FirstError(<<idFloat.err, name.err, description.err,
                                 createdAtNT.err, updatedAtNT.err>>)
         IN IF err # Nil THEN Scanned(err, dest)
            ELSE Scanned(Nil,
                   [id |-> idFloat.f,
                    name |-> name.s,
                    description |-> description.s,
                    room_type_id |-> PositionalRef(row[4].val, dest.room_type_id),
                    created_at |-> IF createdAtNT.Valid THEN createdAtNT.Time
                                   ELSE dest.created_at,
                    updated_at |-> IF updatedAtNT.Valid THEN updatedAtNT.Time
                                   ELSE dest.updated_at])

\* one iteration of scanRoomTypeWithColumns' loop over cols
RoomTypeColumn(dest, col, val) ==
    IF val.t = "nil" THEN dest
    ELSE CASE col = "id" -> [dest EXCEPT !.id = ColumnInt64(val, @)]
           [] col = "size" -> [dest EXCEPT !.size = ColumnString(val, @)]
           [] col = "style" -> [dest EXCEPT !.style = ColumnString(val, @)]
           [] col = "created_at" -> [dest EXCEPT !.created_at = parseTimeValue(val)]
           [] col = "updated_at" -> [dest EXCEPT !.updated_at = parseTimeValue(val)]
           [] OTHER -> dest

RECURSIVE RoomTypeColumns(_, _, _)
RoomTypeColumns(row, i, dest) ==
    IF i > Len(row) THEN dest
    ELSE RoomTypeColumns(row, i + 1, RoomTypeColumn(dest, row[i].col, row[i].val))

\* scanRoomTypeWithColumns
scanRoomTypeWithColumns(row, dest) == Scanned(Nil, RoomTypeColumns(row, 1, dest))

\* scanRoomType: by column name for *sql.Rows, else by position, in the
\* order id, size, style, created_at, updated_at
scanRoomType(handle, row, dest) ==
    IF handle = "*sql.Rows" THEN scanRoomTypeWithColumns(row, dest)
    ELSE IF Len(row) # 5 THEN Scanned(ErrScanArity, dest)
    ELSE LET idFloat == ConvertFloat64(row[1].val)
             size == ConvertString(row[2].val)
             style == ConvertString(row[3].val)
             createdAtNT == NullableTimeScan(row[4].val)
             updatedAtNT == NullableTimeScan(row[5].val)
             err == FirstError(<<idFloat.err, size.err, style.err,
                                 createdAtNT.err, updatedAtNT.err>>)
         IN IF err # Nil THEN Scanned(err, dest)
            ELSE Scanned(Nil,
                   [id |-> idFloat.f,
                    size |-> size.s,
                    style |-> style.s,
                    created_at |-> IF createdAtNT.Valid THEN createdAtNT.Time
                                   ELSE dest.created_at,
                    updated_at |-> IF updatedAtNT.Valid THEN updatedAtNT.Time
                                   ELSE dest.updated_at])

----------------------------------------------------------------------------
(* Reading a row back: what each driver puts on the wire for a stored row, *)
(* and GetByID over it                                                     *)

\* an INTEGER column: the sqlite3 driver returns an int64, D1 a float64
WireInt(n) == IF driver = "cfd1" THEN WFloat64(n) ELSE WInt64(n)

\* a DATETIME column: the sqlite3 driver returns a time.Time, D1 a string
WireTime(n, layout) ==
    IF driver = "cfd1" THEN WString(TimeFormat(layout, n)) ELSE WTime(n)

\* a nullable INTEGER column
WireRef(rt) == IF rt = NULL THEN WNil ELSE WireInt(rt[1])

\* the layouts D1's timestamp strings may come in (here an RFC 3339 one
\* and an SQL one)
WireLayouts ==
    IF driver = "cfd1" THEN {formats[2], formats[3]} ELSE {formats[1]}

\* the column orders a result may come in: the declared one, and with D1
\* another one (here the reverse)
WireOrders(n) ==
    IF driver = "cfd1" THEN {[i \in 1..n |-> i], [i \in 1..n |-> n + 1 - i]}
    ELSE {[i \in 1..n |-> i]}

\* the result rows the driver may produce for users row id
UserRows(id, u) ==
    {WireRow(UserColumnNames,
             <<WireInt(id), WString(u.external_id),
               WireTime(u.created_at, l), WireTime(u.updated_at, l)>>, p) :
        l \in WireLayouts, p \in WireOrders(4)}

\* the result rows the driver may produce for rooms row id
RoomRows(id, r) ==
    {WireRow(RoomColumnNames,
             <<WireInt(id), WString(r.name), WString(r.description),
               WireRef(r.room_type_id),
               WireTime(r.created_at, l), WireTime(r.updated_at, l)>>, p) :
        l \in WireLayouts, p \in WireOrders(6)}

\* the result rows the driver may produce for room_types row id
RoomTypeRows(id, t) ==
    {WireRow(RoomTypeColumnNames,
             <<WireInt(id), WString(t.size), WString(t.style),
               WireTime(t.created_at, l), WireTime(t.updated_at, l)>>, p) :
        l \in WireLayouts, p \in WireOrders(5)}

\* a scan's error as GetByID returns it
ScanError(prefix, scanned) ==
    IF scanned.err = Nil THEN scanned
    ELSE Scanned(<<prefix>> \o scanned.err, scanned.rec)

\* UserRepository.GetByID on table tbl when the query itself does not fail:
\* the results it may return
UserGetByID(tbl, id) ==
    IF id \notin DOMAIN tbl THEN {Scanned(ErrUserNotFound, ZeroUser)}
    ELSE {ScanError("failed to scan user", scanUser("*sql.Rows", row, ZeroUser)) :
             row \in UserRows(id, tbl[id])}

\* RoomRepository.GetByID
RoomGetByID(tbl, id) ==
    IF id \notin DOMAIN tbl THEN {Scanned(ErrRoomNotFound, ZeroRoom)}
    ELSE {ScanError("failed to scan room", scanRoom("*sql.Rows", row, ZeroRoom)) :
             row \in RoomRows(id, tbl[id])}

\* RoomTypeRepository.GetByID
RoomTypeGetByID(tbl, id) ==
    IF id \notin DOMAIN tbl THEN {Scanned(ErrRoomTypeNotFound, ZeroRoomType)}
    ELSE {ScanError("failed to scan room type",
                    scanRoomType("*sql.Rows", row, ZeroRoomType)) :
             row \in RoomTypeRows(id, tbl[id])}

\* the faults a query may fail with: SQLite's lock error under concurrent
\* access, D1's error for a database it does not find
DriverFaults ==
    IF driver = "cfd1" THEN {"database not found"} ELSE {"database is locked"}

\* db.QueryContext failed
QueryFailed(prefix, zero) == {Scanned(Wrap(prefix, f), zero) : f \in DriverFaults}

----------------------------------------------------------------------------
(* Construction: database.New, then MigrateFromFiles on an empty database *)

Init ==
    /\ driver \in {"sqlite3", "cfd1"}
    /\ users = <<>>
    /\ rooms = <<>>
    /\ room_types = <<>>
    /\ user_rooms = {}
    /\ seq = [users |-> 0, rooms |-> 0, room_types |-> 0, user_rooms |-> 0]
    /\ clock = 0
    /\ pc = [c \in Callers |-> Idle]
    /\ last = Returned("none", 0, 0, "", Nil, NoStatus)

\* time passes
Tick ==
    /\ clock < MaxClock
    /\ clock' = clock + 1
    /\ UNCHANGED <<driver, tables, pc, last>>

----------------------------------------------------------------------------
(* Users: UserHandler over UserRepository *)

\* POST /users
CreateUser(c, ext) ==
    /\ pc[c] = Idle
    /\ IF ext = ""
       THEN /\ last' = Returned("CreateUser", 0, 0, ext, Nil, StatusBadRequest)
            /\ UNCHANGED tables
       ELSE IF ~UsersUnique(0, ext)
       THEN /\ last' = Returned("CreateUser", 0, 0, ext,
                                Wrap("failed to create user", UniqueFailed),
                                CreateUserStatus(Wrap("failed to create user", UniqueFailed)))
            /\ UNCHANGED tables
       ELSE /\ seq.users < MaxUsers
            /\ LET id == NextId(users, seq.users) IN
               /\ users' = users @@ (id :> [external_id |-> ext,
                                            created_at |-> clock,
                                            updated_at |-> clock])
               /\ seq' = [seq EXCEPT !.users = id]
               /\ \E got \in UserGetByID(users', id) :
                     last' = ReturnedRecord("CreateUser", id, 0, ext, got.err,
                                            CreateUserStatus(got.err), got.rec)
            /\ UNCHANGED <<rooms, room_types, user_rooms>>
    /\ UNCHANGED <<driver, clock, pc>>

\* (an UPDATE that sets external_id to the parameter as it is)
UpdatedUserOverwrites(u, req, now) ==
    [u EXCEPT !.external_id = req.external_id, !.updated_at = now]

\* the users row after UPDATE users SET external_id =
\* COALESCE(NULLIF(?, ''), external_id), updated_at = ?
UpdatedUser(u, req, now) ==
    [u EXCEPT !.external_id = IF req.external_id # "" THEN req.external_id ELSE @,
              !.updated_at = now]

\* PUT /users/{id}, up to now := time.Now() in UserRepository.Update
UpdateUser(c, id, ext) ==
    /\ pc[c] = Idle
    /\ pc' = [pc EXCEPT ![c] = [op |-> "UpdateUser.exec", u |-> id, r |-> 0,
                                req |-> [external_id |-> ext], now |-> clock,
                                old |-> <<>>]]
    /\ UNCHANGED <<driver, tables, clock, last>>

\* the UPDATE statement of the call: no row affected is "user not found";
\* once applied, the call goes on to read the row back
UpdateUserExec(c) ==
    /\ pc[c].op = "UpdateUser.exec"
    /\ LET id == pc[c].u
           req == pc[c].req IN
       IF id \notin DOMAIN users
       THEN /\ last' = Returned("UpdateUser", id, 0, req.external_id, ErrUserNotFound,
                                UpdateUserStatus(ErrUserNotFound))
            /\ pc' = [pc EXCEPT ![c] = Idle]
            /\ UNCHANGED tables
       ELSE IF ~UsersUnique(id, UpdatedUser(users[id], req, pc[c].now).external_id)
       THEN /\ last' = Returned("UpdateUser", id, 0, req.external_id,
                                Wrap("failed to update user", UniqueFailed),
                                UpdateUserStatus(Wrap("failed to update user", UniqueFailed)))
            /\ pc' = [pc EXCEPT ![c] = Idle]
            /\ UNCHANGED tables
       ELSE /\ users' = [users EXCEPT ![id] = UpdatedUser(@, req, pc[c].now)]
            /\ pc' = [pc EXCEPT ![c].op = "UpdateUser.get", ![c].old = <<users[id]>>]
            /\ UNCHANGED <<rooms, room_types, user_rooms, seq, last>>
    /\ UNCHANGED <<driver, clock>>

\* return r.GetByID(ctx, id): the call reads the row back and returns
UpdateUserGet(c) ==
    /\ pc[c].op = "UpdateUser.get"
    /\ \E got \in UserGetByID(users, pc[c].u)
                    \cup QueryFailed("failed to query user", ZeroUser) :
          last' = ReturnedRecord("UpdateUser", pc[c].u, 0, pc[c].req.external_id,
                                 got.err, UpdateUserStatus(got.err), got.rec)
    /\ pc' = [pc EXCEPT ![c] = Idle]
    /\ UNCHANGED <<driver, tables, clock>>

\* GET /users/{id}
GetUser(c, id) ==
    /\ pc[c] = Idle
    /\ \E got \in UserGetByID(users, id) \cup QueryFailed("failed to query user", ZeroUser) :
          last' = ReturnedRecord("GetUser", id, 0, "", got.err,
                                 GetUserStatus(got.err), got.rec)
    /\ UNCHANGED <<driver, tables, clock, pc>>

\* DELETE /users/{id}
DeleteUser(c, id) ==
    /\ pc[c] = Idle
    /\ IF id \notin DOMAIN users
       THEN /\ last' = Returned("DeleteUser", id, 0, "", ErrUserNotFound,
                                DeleteUserStatus(ErrUserNotFound))
            /\ UNCHANGED tables
       ELSE /\ users' = Without(users, id)
            /\ user_rooms' = CascadeUser(id)
            /\ last' = Returned("DeleteUser", id, 0, "", Nil, DeleteUserStatus(Nil))
            /\ UNCHANGED <<rooms, room_types, seq>>
    /\ UNCHANGED <<driver, clock, pc>>

----------------------------------------------------------------------------
(* Rooms and room types *)

\* the row RoomRepository.Create inserts: INSERT INTO rooms (name,
\* description, room_type_id, created_at, updated_at), both timestamps now
NewRoom(name, description, rt, now) ==
    [name |-> name, description |-> description, room_type_id |-> rt,
     created_at |-> now, updated_at |-> now]

\* POST /rooms
CreateRoom(c, name, description, rt) ==
    /\ pc[c] = Idle
    /\ IF name = ""
       THEN /\ last' = Returned("CreateRoom", 0, 0, name, Nil, StatusBadRequest)
            /\ UNCHANGED tables
       ELSE IF ~RoomsReferences(rt)
       THEN /\ last' = Returned("CreateRoom", 0, 0, name,
                                Wrap("failed to create room", ForeignKeyFailed),
                                CreateRoomStatus(Wrap("failed to create room", ForeignKeyFailed)))
            /\ UNCHANGED tables
       ELSE /\ seq.rooms < MaxRooms
            /\ LET id == NextId(rooms, seq.rooms) IN
               /\ rooms' = rooms @@ (id :> NewRoom(name, description, rt, clock))
               /\ seq' = [seq EXCEPT !.rooms = id]
               /\ \E got \in RoomGetByID(rooms', id) :
                     last' = ReturnedRecord("CreateRoom", id, 0, name, got.err,
                                            CreateRoomStatus(got.err), got.rec)
            /\ UNCHANGED <<users, room_types, user_rooms>>
    /\ UNCHANGED <<driver, clock, pc>>

\* GET /rooms/{id}
GetRoom(c, id) ==
    /\ pc[c] = Idle
    /\ \E got \in RoomGetByID(rooms, id) \cup QueryFailed("failed to query room", ZeroRoom) :
          last' = ReturnedRecord("GetRoom", id, 0, "", got.err,
                                 GetRoomStatus(got.err), got.rec)
    /\ UNCHANGED <<driver, tables, clock, pc>>

\* the reference after an update: a numeric field is present in the
\* request when it is greater than zero, and is kept otherwise
UpdatedRef(old, rt) == IF rt # NULL /\ rt[1] > 0 THEN rt ELSE old

\* (an UPDATE that sets description to the parameter as it is)
UpdatedRoomOverwrites(r, req, now) ==
    [r EXCEPT !.name = IF req.name # "" THEN req.name ELSE @,
              !.description = req.description,
              !.room_type_id = UpdatedRef(@, req.room_type_id),
              !.updated_at = now]

\* (an UPDATE that sets name to the parameter as it is)
UpdatedRoomNameOverwrites(r, req, now) ==
    [r EXCEPT !.name = req.name,
              !.description = IF req.description # "" THEN req.description ELSE @,
              !.room_type_id = UpdatedRef(@, req.room_type_id),
              !.updated_at = now]

\* the rooms row after UPDATE rooms SET name = COALESCE(NULLIF(?, ''), name),
\* description = COALESCE(NULLIF(?, ''), description), ..., updated_at = ?
UpdatedRoom(r, req, now) ==
    [r EXCEPT !.name = IF req.name # "" THEN req.name ELSE @,
              !.description = IF req.description # "" THEN req.description ELSE @,
              !.room_type_id = UpdatedRef(@, req.room_type_id),
              !.updated_at = now]

\* PUT /rooms/{id}, up to now := time.Now() in RoomRepository.Update
UpdateRoom(c, id, name, description, rt) ==
    /\ pc[c] = Idle
    /\ pc' = [pc EXCEPT ![c] = [op |-> "UpdateRoom.exec", u |-> id, r |-> 0,
                                req |-> [name |-> name, description |-> description,
                                         room_type_id |-> rt],
                                now |-> clock, old |-> <<>>]]
    /\ UNCHANGED <<driver, tables, clock, last>>

\* the UPDATE statement of the call
UpdateRoomExec(c) ==
    /\ pc[c].op = "UpdateRoom.exec"
    /\ LET id == pc[c].u
           req == pc[c].req IN
       IF id \notin DOMAIN rooms
       THEN /\ last' = Returned("UpdateRoom", id, 0, req.name, ErrRoomNotFound,
                                UpdateRoomStatus(ErrRoomNotFound))
            /\ pc' = [pc EXCEPT ![c] = Idle]
            /\ UNCHANGED tables
       ELSE IF ~RoomsReferences(UpdatedRoom(rooms[id], req, pc[c].now).room_type_id)
       THEN /\ last' = Returned("UpdateRoom", id, 0, req.name,
                                Wrap("failed to update room", ForeignKeyFailed),
                                UpdateRoomStatus(Wrap("failed to update room", ForeignKeyFailed)))
            /\ pc' = [pc EXCEPT ![c] = Idle]
            /\ UNCHANGED tables
       ELSE /\ rooms' = [rooms EXCEPT ![id] = UpdatedRoom(@, req, pc[c].now)]
            /\ pc' = [pc EXCEPT ![c].op = "UpdateRoom.get", ![c].old = <<rooms[id]>>]
            /\ UNCHANGED <<users, room_types, user_rooms, seq, last>>
    /\ UNCHANGED <<driver, clock>>

\* return r.GetByID(ctx, id)
UpdateRoomGet(c) ==
    /\ pc[c].op = "UpdateRoom.get"
    /\ \E got \in RoomGetByID(rooms, pc[c].u)
                    \cup QueryFailed("failed to query room", ZeroRoom) :
          last' = ReturnedRecord("UpdateRoom", pc[c].u, 0, pc[c].req.name,
                                 got.err, UpdateRoomStatus(got.err), got.rec)
    /\ pc' = [pc EXCEPT ![c] = Idle]
    /\ UNCHANGED <<driver, tables, clock>>

\* DELETE /rooms/{id}
DeleteRoom(c, id) ==
    /\ pc[c] = Idle
    /\ IF id \notin DOMAIN rooms
       THEN /\ last' = Returned("DeleteRoom", id, 0, "", ErrRoomNotFound,
                                DeleteRoomStatus(ErrRoomNotFound))
            /\ UNCHANGED tables
       ELSE /\ rooms' = Without(rooms, id)
            /\ user_rooms' = CascadeRoom(id)
            /\ last' = Returned("DeleteRoom", id, 0, "", Nil, DeleteRoomStatus(Nil))
            /\ UNCHANGED <<users, room_types, seq>>
    /\ UNCHANGED <<driver, clock, pc>>

\* RoomTypeRepository.Create
CreateRoomType(c, size, style) ==
    /\ pc[c] = Idle
    /\ seq.room_types < MaxRoomTypes
    /\ LET id == NextId(room_types, seq.room_types) IN
       /\ room_types' = room_types @@ (id :> [size |-> size, style |-> style,
                                              created_at |-> clock,
                                              updated_at |-> clock])
       /\ seq' = [seq EXCEPT !.room_types = id]
       /\ \E got \in RoomTypeGetByID(room_types', id) :
             last' = ReturnedRecord("CreateRoomType", id, 0, size, got.err,
                                    NoStatus, got.rec)
    /\ UNCHANGED <<driver, users, rooms, user_rooms, clock, pc>>

\* RoomTypeRepository.GetByID
GetRoomType(c, id) ==
    /\ pc[c] = Idle
    /\ \E got \in RoomTypeGetByID(room_types, id)
                    \cup QueryFailed("failed to query room type", ZeroRoomType) :
          last' = ReturnedRecord("GetRoomType", id, 0, "", got.err, NoStatus, got.rec)
    /\ UNCHANGED <<driver, tables, clock, pc>>

\* (an UPDATE that sets style to the parameter as it is)
UpdatedRoomTypeOverwrites(t, req, now) ==
    [t EXCEPT !.size = IF req.size # "" THEN req.size ELSE @,
              !.style = req.style,
              !.updated_at = now]

\* the room_types row after UPDATE room_types SET size =
\* COALESCE(NULLIF(?, ''), size), style = COALESCE(NULLIF(?, ''), style),
\* updated_at = ?
UpdatedRoomType(t, req, now) ==
    [t EXCEPT !.size = IF req.size # "" THEN req.size ELSE @,
              !.style = IF req.style # "" THEN req.style ELSE @,
              !.updated_at = now]

\* RoomTypeRepository.Update, up to now := time.Now()
UpdateRoomType(c, id, size, style) ==
    /\ pc[c] = Idle
    /\ pc' = [pc EXCEPT ![c] = [op |-> "UpdateRoomType.exec", u |-> id, r |-> 0,
                                req |-> [size |-> size, style |-> style],
                                now |-> clock, old |-> <<>>]]
    /\ UNCHANGED <<driver, tables, clock, last>>

\* the UPDATE statement of the call
UpdateRoomTypeExec(c) ==
    /\ pc[c].op = "UpdateRoomType.exec"
    /\ LET id == pc[c].u
           req == pc[c].req IN
       IF id \notin DOMAIN room_types
       THEN /\ last' = Returned("UpdateRoomType", id, 0, req.size,
                                ErrRoomTypeNotFound, NoStatus)
            /\ pc' = [pc EXCEPT ![c] = Idle]
            /\ UNCHANGED tables
       ELSE /\ room_types' = [room_types EXCEPT ![id] = UpdatedRoomType(@, req, pc[c].now)]
            /\ pc' = [pc EXCEPT ![c].op = "UpdateRoomType.get",
                                ![c].old = <<room_types[id]>>]
            /\ UNCHANGED <<users, rooms, user_rooms, seq, last>>
    /\ UNCHANGED <<driver, clock>>

\* return r.GetByID(ctx, id)
UpdateRoomTypeGet(c) ==
    /\ pc[c].op = "UpdateRoomType.get"
    /\ \E got \in RoomTypeGetByID(room_types, pc[c].u)
                    \cup QueryFailed("failed to query room type", ZeroRoomType) :
          last' = ReturnedRecord("UpdateRoomType", pc[c].u, 0, pc[c].req.size,
                                 got.err, NoStatus, got.rec)
    /\ pc' = [pc EXCEPT ![c] = Idle]
    /\ UNCHANGED <<driver, tables, clock>>

\* RoomTypeRepository.Delete
DeleteRoomType(c, id) ==
    /\ pc[c] = Idle
    /\ IF id \notin DOMAIN room_types
       THEN /\ last' = Returned("DeleteRoomType", id, 0, "", ErrRoomTypeNotFound, NoStatus)
            /\ UNCHANGED tables
       ELSE /\ room_types' = Without(room_types, id)
            /\ rooms' = SetNullRoomType(id)
            /\ last' = Returned("DeleteRoomType", id, 0, "", Nil, NoStatus)
            /\ UNCHANGED <<users, user_rooms, seq>>
    /\ UNCHANGED <<driver, clock, pc>>

----------------------------------------------------------------------------
(* The user-room relationship: RoomHandler over RoomRepository *)

\* (the count tested with > 1 instead of > 0)
AlreadyAssignedOffByOne(u, r) ==
    Cardinality({x \in user_rooms : x.user_id = u /\ x.room_id = r}) > 1

\* SELECT COUNT(*) FROM user_rooms WHERE user_id = ? AND room_id = ?,
\* and the test of the count
AlreadyAssigned(u, r) ==
    Cardinality({x \in user_rooms : x.user_id = u /\ x.room_id = r}) > 0

\* POST /rooms/{roomId}/users, up to the repository's COUNT query:
\* the handler rejects user_id 0; a count above zero is the duplicate
AssignCheck(c, u, r) ==
    /\ pc[c] = Idle
    /\ IF u = 0
       THEN /\ last' = Returned("AssignUserToRoom", u, r, "", Nil, StatusBadRequest)
            /\ pc' = pc
       ELSE IF AlreadyAssigned(u, r)
       THEN /\ last' = Returned("AssignUserToRoom", u, r, "", ErrAlreadyAssigned,
                                AssignStatus(ErrAlreadyAssigned))
            /\ pc' = pc
       ELSE /\ pc' = [pc EXCEPT ![c] = [op |-> "assign", u |-> u, r |-> r]]
            /\ last' = last
    /\ UNCHANGED <<driver, tables, clock>>

\* the INSERT INTO user_rooms of a call whose COUNT query found nothing
AssignInsert(c) ==
    /\ pc[c].op = "assign"
    /\ LET u == pc[c].u
           r == pc[c].r IN
       IF ~UserRoomsUnique(u, r)
       THEN /\ last' = Returned("AssignUserToRoom", u, r, "",
                                Wrap("failed to assign user to room", UniqueFailed),
                                AssignStatus(Wrap("failed to assign user to room", UniqueFailed)))
            /\ UNCHANGED tables
       ELSE IF ~UserRoomsReferences(u, r)
       THEN /\ last' = Returned("AssignUserToRoom", u, r, "",
                                Wrap("failed to assign user to room", ForeignKeyFailed),
                                AssignStatus(Wrap("failed to assign user to room", ForeignKeyFailed)))
            /\ UNCHANGED tables
       ELSE /\ seq.user_rooms < MaxUserRooms
            /\ LET id == seq.user_rooms + 1 IN
               /\ user_rooms' = user_rooms \cup
                      {[id |-> id, user_id |-> u, room_id |-> r, created_at |-> clock]}
               /\ seq' = [seq EXCEPT !.user_rooms = id]
            /\ last' = Returned("AssignUserToRoom", u, r, "", Nil, AssignStatus(Nil))
            /\ UNCHANGED <<users, rooms, room_types>>
    /\ pc' = [pc EXCEPT ![c] = Idle]
    /\ UNCHANGED <<driver, clock>>

\* (the DELETE without its room condition)
RemovedRowsAnyRoom(u, r) == {x \in user_rooms : x.user_id = u}

\* the rows of DELETE FROM user_rooms WHERE user_id = ? AND room_id = ?
RemovedRows(u, r) == {x \in user_rooms : x.user_id = u /\ x.room_id = r}

\* DELETE /rooms/{roomId}/users/{userId}
RemoveUserFromRoom(c, u, r) ==
    /\ pc[c] = Idle
    /\ LET rowsAffected == Cardinality(RemovedRows(u, r))
           err == IF rowsAffected = 0 THEN ErrNotAssigned ELSE Nil IN
       /\ user_rooms' = user_rooms \ RemovedRows(u, r)
       /\ last' = Returned("RemoveUserFromRoom", u, r, "", err, RemoveStatus(err))
    /\ UNCHANGED <<driver, users, rooms, room_types, seq, clock, pc>>

\* (the DELETE without its WHERE clause)
RemovedRowsEveryUser(u) == user_rooms

\* the rows of DELETE FROM user_rooms WHERE user_id = ?
RemovedRowsOfUser(u) == {x \in user_rooms : x.user_id = u}

\* RoomRepository.RemoveUserFromAllRooms
RemoveUserFromAllRooms(c, u) ==
    /\ pc[c] = Idle
    /\ LET rowsAffected == Cardinality(RemovedRowsOfUser(u))
           err == IF rowsAffected = 0 THEN ErrNotAssignedAny ELSE Nil IN
       /\ user_rooms' = user_rooms \ RemovedRowsOfUser(u)
       /\ last' = Returned("RemoveUserFromAllRooms", u, 0, "", err, NoStatus)
    /\ UNCHANGED <<driver, users, rooms, room_types, seq, clock, pc>>

----------------------------------------------------------------------------
(* Queries that return several rows: ORDER BY, LIMIT and OFFSET, and the   *)
(* scan of each row                                                        *)

\* the TEXT values of the model in the order SQLite's BINARY collation gives
\* them (byte by byte)
Collation == <<"", "A", "B", "ext-1", "ext-2", "large", "modern", "quiet", "small">>

TextRank(t) == CHOOSE i \in 1..Len(Collation) : Collation[i] = t

\* the orders a query may return the rows ids in under ORDER BY key: each
\* row once, keys ascending, rows of equal key in any order
OrderedBy(ids, key) ==
    {o \in [1..Cardinality(ids) -> ids] :
        /\ \A i, j \in DOMAIN o : i # j => o[i] # o[j]
        /\ \A i, j \in DOMAIN o : i < j => key[o[i]] <= key[o[j]]}

\* (a window that starts at the first row whatever the offset)
WindowNoOffset(o, limit, offset) ==
    SubSeq(o, 1, IF limit < Len(o) THEN limit ELSE Len(o))

\* LIMIT limit OFFSET offset, both non-negative, over the ordered rows o
Window(o, limit, offset) ==
    SubSeq(o, offset + 1, IF offset + limit < Len(o) THEN offset + limit ELSE Len(o))

\* for rows.Next() { scan; append } over the rows ids of tbl in order o: the
\* results the loop may end with, the first scan error ending it
RECURSIVE ScanEach(_, _, _, _)
ScanEach(o, i, acc, scans) ==
    IF i > Len(o) THEN {Scanned(Nil, acc)}
    ELSE UNION {IF got.err # Nil THEN {Scanned(got.err, <<>>)}
                ELSE ScanEach(o, i + 1, Append(acc, got.rec), scans) :
                   got \in scans[o[i]]}

\* the scans of every users row, and of every rooms row
UserScans ==
    [id \in DOMAIN users |->
        {ScanError("failed to scan user", scanUser("*sql.Rows", row, ZeroUser)) :
            row \in UserRows(id, users[id])}]
RoomScans ==
    [id \in DOMAIN rooms |->
        {ScanError("failed to scan room", scanRoom("*sql.Rows", row, ZeroRoom)) :
            row \in RoomRows(id, rooms[id])}]

\* a query that returns several rows failed
RowsFailed(prefix) == {Scanned(Wrap(prefix, f), <<>>) : f \in DriverFaults}

\* ORDER BY created_at DESC
UsersByCreatedAtDesc == [id \in DOMAIN users |-> 0 - users[id].created_at]
RoomsByCreatedAtDesc == [id \in DOMAIN rooms |-> 0 - rooms[id].created_at]

\* UserRepository.List when the query itself does not fail
UserList(limit, offset) ==
    UNION {ScanEach(Window(o, limit, offset), 1, <<>>, UserScans) :
              o \in OrderedBy(DOMAIN users, UsersByCreatedAtDesc)}

\* RoomRepository.List
RoomList(limit, offset) ==
    UNION {ScanEach(Window(o, limit, offset), 1, <<>>, RoomScans) :
              o \in OrderedBy(DOMAIN rooms, RoomsByCreatedAtDesc)}

\* GET /users?limit=&offset=
ListUsers(c, limit, offset) ==
    /\ pc[c] = Idle
    /\ \E got \in UserList(limit, offset) \cup RowsFailed("failed to list users") :
          last' = ReturnedRecord("ListUsers", limit, offset, "", got.err,
                                 ListUsersStatus(got.err), got.rec)
    /\ UNCHANGED <<driver, tables, clock, pc>>

\* GET /rooms?limit=&offset=
ListRooms(c, limit, offset) ==
    /\ pc[c] = Idle
    /\ \E got \in RoomList(limit, offset) \cup RowsFailed("failed to list rooms") :
          last' = ReturnedRecord("ListRooms", limit, offset, "", got.err,
                                 ListRoomsStatus(got.err), got.rec)
    /\ UNCHANGED <<driver, tables, clock, pc>>

\* (ORDER BY r.id)
UserRoomsById == [id \in DOMAIN rooms |-> id]

\* (the join without WHERE ur.room_id = ?)
RoomUsersJoinAnyRoom(r) ==
    {x \in user_rooms : x.user_id \in DOMAIN users}

\* users INNER JOIN user_rooms ON u.id = ur.user_id WHERE ur.room_id = r:
\* one row per join row whose user is stored
RoomUsersJoin(r) ==
    {x \in user_rooms : x.room_id = r /\ x.user_id \in DOMAIN users}

\* ORDER BY the user's external identifier
RoomUsersByExternalID == [id \in DOMAIN users |-> TextRank(users[id].external_id)]

\* ORDER BY r.name
UserRoomsByName == [id \in DOMAIN rooms |-> TextRank(rooms[id].name)]

\* the join rows rws as a query returns them under ORDER BY key, row(x)
\* being the entity of join row x: the orders of the join rows
JoinOrders(rws, key) ==
    {o \in [1..Cardinality(rws) -> rws] :
        /\ \A i, j \in DOMAIN o : i # j => o[i] # o[j]
        /\ \A i, j \in DOMAIN o : i < j => key[o[i]] <= key[o[j]]}

\* GET /rooms/{id}/users, up to the room's GetByID
GetRoomWithUsers(c, r) ==
    /\ pc[c] = Idle
    /\ \E got \in RoomGetByID(rooms, r) \cup QueryFailed("failed to query room", ZeroRoom) :
          IF got.err # Nil
          THEN /\ last' = Returned("GetRoomWithUsers", 0, r, "", got.err,
                                   GetRoomUsersStatus(got.err))
               /\ pc' = pc
          ELSE /\ pc' = [pc EXCEPT ![c] = [op |-> "GetRoomWithUsers.users", u |-> 0,
                                           r |-> r, room |-> got.rec]]
               /\ last' = last
    /\ UNCHANGED <<driver, tables, clock>>

\* the query of the room's users and the scan of its rows
GetRoomWithUsersJoin(c) ==
    /\ pc[c].op = "GetRoomWithUsers.users"
    /\ LET r == pc[c].r
           key == [x \in RoomUsersJoin(r) |-> RoomUsersByExternalID[x.user_id]]
           results ==
               UNION {ScanEach([i \in DOMAIN o |-> o[i].user_id], 1, <<>>, UserScans) :
                         o \in JoinOrders(RoomUsersJoin(r), key)} IN
       \E got \in results \cup RowsFailed("failed to get room users") :
          last' = ReturnedRecord("GetRoomWithUsers", 0, r, "", got.err,
                                 GetRoomUsersStatus(got.err),
                                 [Room |-> pc[c].room, Users |-> got.rec])
    /\ pc' = [pc EXCEPT ![c] = Idle]
    /\ UNCHANGED <<driver, tables, clock>>

\* GET /users/{id}/rooms
GetUserRooms(c, u) ==
    /\ pc[c] = Idle
    /\ LET rws == {x \in user_rooms : x.user_id = u /\ x.room_id \in DOMAIN rooms}
           key == [x \in rws |-> UserRoomsByName[x.room_id]]
           results ==
               UNION {ScanEach([i \in DOMAIN o |-> o[i].room_id], 1, <<>>, RoomScans) :
                         o \in JoinOrders(rws, key)} IN
       \E got \in results \cup RowsFailed("failed to get user rooms") :
          last' = ReturnedRecord("GetUserRooms", u, 0, "", got.err,
                                 GetUserRoomsStatus(got.err), got.rec)
    /\ UNCHANGED <<driver, tables, clock, pc>>

\* the rows of GetUserRooms(u): rooms INNER JOIN user_rooms, one per join row
UserRoomsJoin(u) ==
    {x \in user_rooms : x.user_id = u /\ x.room_id \in DOMAIN rooms}

\* how many entries of GetUserRooms(u) are room r
UserRoomsEntries(u, r) == Cardinality({x \in UserRoomsJoin(u) : x.room_id = r})

----------------------------------------------------------------------------

\* the calls on users
UserCalls(c) ==
    \/ \E ext \in ExternalIDs \cup {""} : CreateUser(c, ext)
    \/ \E id \in UserIds, ext \in ExternalIDs \cup {""} : UpdateUser(c, id, ext)
    \/ UpdateUserExec(c)
    \/ UpdateUserGet(c)
    \/ \E id \in UserIds : GetUser(c, id)
    \/ \E id \in UserIds : DeleteUser(c, id)

\* the calls on rooms and room types
RoomCalls(c) ==
    \/ \E name \in RoomNames \cup {""}, d \in Descriptions,
          rt \in {NULL} \cup {Some(t) : t \in RoomTypeIds} :
          CreateRoom(c, name, d, rt)
    \/ \E id \in RoomIds : GetRoom(c, id)
    \/ \E id \in RoomIds : DeleteRoom(c, id)
    \/ \E size \in Sizes, style \in Styles : CreateRoomType(c, size, style)
    \/ \E id \in RoomTypeIds : GetRoomType(c, id)
    \/ \E id \in RoomTypeIds : DeleteRoomType(c, id)

\* the calls on the relationship
RelationshipCalls(c) ==
    \/ \E u \in UserIds \cup {0}, r \in RoomIds : AssignCheck(c, u, r)
    \/ AssignInsert(c)
    \/ \E u \in UserIds, r \in RoomIds : RemoveUserFromRoom(c, u, r)
    \/ \E u \in UserIds : RemoveUserFromAllRooms(c, u)

Next ==
    \/ Tick
    \/ \E c \in Callers : UserCalls(c) \/ RoomCalls(c) \/ RelationshipCalls(c)

Spec == Init /\ [][Next]_vars

\* The program restricted to the users table
NextUsers == Tick \/ \E c \in Callers : UserCalls(c)

SpecUsers == Init /\ [][NextUsers]_vars

\* The program restricted to rooms and room types
NextRooms == Tick \/ \E c \in Callers : RoomCalls(c)

SpecRooms == Init /\ [][NextRooms]_vars

\* The three entity repositories' create, get and delete
NextEntities ==
    \/ Tick
    \/ \E c \in Callers :
          \/ \E ext \in ExternalIDs \cup {""} : CreateUser(c, ext)
          \/ \E id \in UserIds : GetUser(c, id)
          \/ \E id \in UserIds : DeleteUser(c, id)
          \/ \E name \in AssignRoomNames \cup {""}, d \in Descriptions,
                rt \in {NULL} \cup {Some(t) : t \in RoomTypeIds} :
                CreateRoom(c, name, d, rt)
          \/ \E id \in RoomIds : GetRoom(c, id)
          \/ \E id \in RoomIds : DeleteRoom(c, id)
          \/ \E size \in Sizes, style \in Styles : CreateRoomType(c, size, style)
          \/ \E id \in RoomTypeIds : GetRoomType(c, id)
          \/ \E id \in RoomTypeIds : DeleteRoomType(c, id)

SpecEntities == Init /\ [][NextEntities]_vars

\* The updates of the three entities, one call after the other, on a
\* database that holds one user, one room and one room type, each as its
\* create and earlier updates can have left it
InitUpdates ==
    /\ driver \in {"sqlite3", "cfd1"}
    /\ clock \in 0..MaxClock
    /\ \E ext \in ExternalIDs, at \in 0..clock :
          users = 1 :> [external_id |-> ext, created_at |-> 0, updated_at |-> at]
    /\ \E size \in Sizes \cup UpdateSizes, style \in Styles, at \in 0..clock :
          room_types = 1 :> [size |-> size, style |-> style,
                             created_at |-> 0, updated_at |-> at]
    /\ \E name \in AssignRoomNames \cup {"B"}, d \in Descriptions \cup UpdateDescriptions,
          rt \in {NULL, Some(1)}, at \in 0..clock :
          rooms = 1 :> [name |-> name, description |-> d, room_type_id |-> rt,
                        created_at |-> 0, updated_at |-> at]
    /\ user_rooms = {}
    /\ seq = [users |-> 1, rooms |-> 1, room_types |-> 1, user_rooms |-> 0]
    /\ pc = [c \in Callers |-> Idle]
    /\ last = Returned("none", 0, 0, "", Nil, NoStatus)

UpdateCalls(c) ==
    \/ \E id \in UserIds, ext \in ExternalIDs \cup {""} : UpdateUser(c, id, ext)
    \/ UpdateUserExec(c)
    \/ UpdateUserGet(c)
    \/ \E id \in RoomIds, name \in {"", "B"}, d \in UpdateDescriptions \cup {""},
          rt \in {NULL, Some(0)} \cup {Some(t) : t \in RoomTypeIds} :
          UpdateRoom(c, id, name, d, rt)
    \/ UpdateRoomExec(c)
    \/ UpdateRoomGet(c)
    \/ \E id \in RoomTypeIds, size \in UpdateSizes \cup {""} :
          UpdateRoomType(c, id, size, "")
    \/ UpdateRoomTypeExec(c)
    \/ UpdateRoomTypeGet(c)

NextUpdates == Tick \/ UpdateCalls("c1")

SpecUpdates == InitUpdates /\ [][NextUpdates]_vars

\* The tables users, rooms and user_rooms as creates, deletes and assigns
\* can have left them: ids in the order of creation, external identifiers
\* distinct, and join rows that name a missing user or room only where
\* foreign keys are not enforced
StoredUsers ==
    {t \in UNION {[ids -> [external_id : ExternalIDs, created_at : 0..clock,
                           updated_at : 0..clock]] : ids \in SUBSET UserIds} :
        /\ \A i, j \in DOMAIN t : i # j => t[i].external_id # t[j].external_id
        /\ \A i, j \in DOMAIN t : i < j => t[i].created_at <= t[j].created_at
        /\ \A i \in DOMAIN t : t[i].updated_at = t[i].created_at}

StoredRooms ==
    {t \in UNION {[ids -> [name : RoomNames, description : Descriptions,
                           room_type_id : {NULL}, created_at : 0..clock,
                           updated_at : 0..clock]] : ids \in SUBSET RoomIds} :
        /\ \A i, j \in DOMAIN t : i < j => t[i].created_at <= t[j].created_at
        /\ \A i \in DOMAIN t : t[i].updated_at = t[i].created_at}

StoredUserRooms ==
    {{[id |-> (p[1] - 1) * MaxRooms + p[2], user_id |-> p[1], room_id |-> p[2],
       created_at |-> clock] : p \in ps} :
        ps \in {q \in SUBSET (UserIds \X RoomIds) :
                   ForeignKeys => \A p \in q : p[1] \in DOMAIN users /\ p[2] \in DOMAIN rooms}}

InitQueries ==
    /\ driver \in {"sqlite3", "cfd1"}
    /\ clock \in 0..MaxClock
    /\ users \in StoredUsers
    /\ rooms \in StoredRooms
    /\ room_types = <<>>
    /\ user_rooms \in StoredUserRooms
    /\ seq = [users |-> MaxUsers, rooms |-> MaxRooms, room_types |-> 0,
              user_rooms |-> MaxUsers * MaxRooms]
    /\ pc = [c \in Callers |-> Idle]
    /\ last = Returned("none", 0, 0, "", Nil, NoStatus)

\* Two callers that update the same room and the same room type, each its
\* own fields: c1 the room's name and the room type's size, c2 the room's
\* description and the room type's style
InitDisjoint ==
    /\ driver \in {"sqlite3", "cfd1"}
    /\ clock = 0
    /\ users = <<>>
    /\ \E name \in AssignRoomNames, d \in Descriptions :
          rooms = 1 :> NewRoom(name, d, NULL, 0)
    /\ \E size \in Sizes, style \in Styles :
          room_types = 1 :> [size |-> size, style |-> style,
                             created_at |-> 0, updated_at |-> 0]
    /\ user_rooms = {}
    /\ seq = [users |-> 0, rooms |-> 1, room_types |-> 1, user_rooms |-> 0]
    /\ pc = [c \in Callers |-> Idle]
    /\ last = Returned("none", 0, 0, "", Nil, NoStatus)

NextDisjoint ==
    \/ Tick
    \/ UpdateRoom("c1", 1, "B", "", NULL)
    \/ \E d \in UpdateDescriptions : UpdateRoom("c2", 1, "", d, NULL)
    \/ \E size \in UpdateSizes : UpdateRoomType("c1", 1, size, "")
    \/ \E style \in UpdateStyles : UpdateRoomType("c2", 1, "", style)
    \/ \E c \in Callers :
          \/ UpdateRoomExec(c)
          \/ UpdateRoomGet(c)
          \/ UpdateRoomTypeExec(c)
          \/ UpdateRoomTypeGet(c)

SpecDisjoint == InitDisjoint /\ [][NextDisjoint]_vars

\* The calls that write the name of a room, one call after the other
RoomNameCalls(c) ==
    \/ \E name \in AssignRoomNames \cup {""}, d \in Descriptions \cup UpdateDescriptions :
          CreateRoom(c, name, d, NULL)
    \/ \E id \in RoomIds, name \in {"", "B"}, d \in UpdateDescriptions \cup {""} :
          UpdateRoom(c, id, name, d, NULL)
    \/ UpdateRoomExec(c)
    \/ UpdateRoomGet(c)
    \/ \E id \in RoomIds : DeleteRoom(c, id)

NextRoomNames == Tick \/ RoomNameCalls("c1")

SpecRoomNames == Init /\ [][NextRoomNames]_vars

\* The queries that return several rows, one call on each stored state
QueryCalls(c) ==
    \/ \E r \in RoomIds : GetRoomWithUsers(c, r)
    \/ GetRoomWithUsersJoin(c)
    \/ \E u \in UserIds : GetUserRooms(c, u)
    \/ \E limit \in 0..MaxUsers, offset \in 0..MaxUsers : ListUsers(c, limit, offset)
    \/ \E limit \in 0..MaxRooms, offset \in 0..MaxRooms : ListRooms(c, limit, offset)

NextQueries == last.op = "none" /\ QueryCalls("c1")

SpecQueries == InitQueries /\ [][NextQueries]_vars

\* The program restricted to what reads or writes user_rooms: the
\* relationship calls, and the creates and deletes of users and rooms
NextAssign ==
    \E c \in Callers :
        \/ \E ext \in ExternalIDs \cup {""} : CreateUser(c, ext)
        \/ \E id \in UserIds : DeleteUser(c, id)
        \/ \E name \in AssignRoomNames \cup {""}, d \in Descriptions :
              CreateRoom(c, name, d, NULL)
        \/ \E id \in RoomIds : DeleteRoom(c, id)
        \/ RelationshipCalls(c)

SpecAssign == Init /\ [][NextAssign]_vars

----------------------------------------------------------------------------
(* The row scanner on its own: rows of every wire shape, scanned through   *)
(* either kind of handle                                                   *)

Handles == {"*sql.Rows", "*sql.Row"}

\* the orderings of n columns
Orderings(n) ==
    {p \in [1..n -> 1..n] : \A i, j \in 1..n : i # j => p[i] # p[j]}

UserOrders == Orderings(4)
\* the declared order, its reverse, and one with two columns exchanged
RoomOrders == {<<1, 2, 3, 4, 5, 6>>, <<6, 5, 4, 3, 2, 1>>, <<4, 2, 3, 1, 5, 6>>}

\* the wire values tried for each users column
UserWireValues ==
    {WInt64(1), WFloat64(2), WNil, WString("x"), WBool}
    \X {WString("ext-1"), WInt64(1), WNil, WBytes("ext-1")}
    \X {WTime(0), WString(TimeFormat(formats[3], 1)), WString("yesterday"), WNil, WBool}
    \X {WTime(1), WString(TimeFormat(formats[1], 0))}

\* the wire values tried for each rooms column
RoomWireValues ==
    {WInt64(1), WFloat64(2), WString("x")}
    \X {WString("A"), WNil}
    \X {WString("")}
    \X {WNil, WInt64(1), WFloat64(1), WString("1"), WBool}
    \X {WTime(0), WString("yesterday")}
    \X {WString(TimeFormat(formats[4], 1))}

\* a row of table tbl waiting to be scanned through a handle
Fetched(tbl, handle, row) ==
    [Returned(tbl, 0, 0, handle, Nil, NoStatus) EXCEPT !.row = row]

\* an empty database, and one fetched row of any of the shapes above
InitScan ==
    /\ driver \in {"sqlite3", "cfd1"}
    /\ users = <<>>
    /\ rooms = <<>>
    /\ room_types = <<>>
    /\ user_rooms = {}
    /\ seq = [users |-> 0, rooms |-> 0, room_types |-> 0, user_rooms |-> 0]
    /\ clock = 0
    /\ pc = [c \in Callers |-> Idle]
    /\ \E handle \in Handles :
          \/ \E vals \in UserWireValues, p \in UserOrders :
                last = Fetched("users", handle, WireRow(UserColumnNames, vals, p))
          \/ \E vals \in RoomWireValues, p \in RoomOrders :
                last = Fetched("rooms", handle, WireRow(RoomColumnNames, vals, p))

\* the fetched users row is scanned into a fresh models.User
ScanUserRow ==
    /\ last.op = "users"
    /\ LET scanned == scanUser(last.s, last.row, ZeroUser) IN
       last' = [ReturnedRecord("scanUser", 0, 0, last.s, scanned.err, NoStatus,
                               scanned.rec)
                EXCEPT !.row = last.row]
    /\ UNCHANGED <<driver, tables, clock, pc>>

\* the fetched rooms row is scanned into a fresh models.Room
ScanRoomRow ==
    /\ last.op = "rooms"
    /\ LET scanned == scanRoom(last.s, last.row, ZeroRoom) IN
       last' = [ReturnedRecord("scanRoom", 0, 0, last.s, scanned.err, NoStatus,
                               scanned.rec)
                EXCEPT !.row = last.row]
    /\ UNCHANGED <<driver, tables, clock, pc>>

NextScan == ScanUserRow \/ ScanRoomRow

SpecScan == InitScan /\ [][NextScan]_vars

----------------------------------------------------------------------------
(* The claims *)

\* the stored rows of pair (u, r), written out
Pairs(u, r) == {x \in user_rooms : x.user_id = u /\ x.room_id = r}

\* C1: in every reachable state, under any interleaving of assign, remove
\* and delete calls, user_rooms holds at most one row for any (user id,
\* room id) pair.
C1_NoDuplicatePair ==
    \A x \in user_rooms, y \in user_rooms :
        (x.user_id = y.user_id /\ x.room_id = y.room_id) => x = y

\* C1 witness: an assign that passed its COUNT check lost the race and was
\* stopped by the constraint, the pair being stored by the other caller.
C1_Witness ==
    /\ last.op = "AssignUserToRoom"
    /\ Contains(last.err, UniqueFailed)
    /\ Cardinality(Pairs(last.id, last.rid)) = 1

\* C2: after delete of a User or of a Room succeeds, no row of user_rooms
\* references the deleted entity.
C2_DeleteCascades ==
    /\ (last.op = "DeleteUser" /\ last.err = Nil)
          => \A x \in user_rooms : x.user_id # last.id
    /\ (last.op = "DeleteRoom" /\ last.err = Nil)
          => \A x \in user_rooms : x.room_id # last.id

C4_DuplicateAssignAnswered409 ==
    (last.op = "AssignUserToRoom" /\ last.err = ErrAlreadyAssigned)
        => last.status = StatusConflict

\* C5: an assign that fails because the pair is stored, the loser of a race
\* included, is reported the error a sequential duplicate assign gets.
C5_RaceLoserGetsConflict ==
    (last.op = "AssignUserToRoom" /\ last.err # Nil /\ Pairs(last.id, last.rid) # {})
        => last.err = ErrAlreadyAssigned

\* C6: in every reachable state no two users rows carry the same external
\* identifier, under any sequence or interleaving of create and update calls.
C6_ExternalIDUnique ==
    \A i \in DOMAIN users, j \in DOMAIN users :
        i # j => users[i].external_id # users[j].external_id

\* C6 witness: an update that would have given a second user an identifier
\* in use was stopped, both users being stored.
C6_Witness ==
    /\ last.op = "UpdateUser"
    /\ Contains(last.err, UniqueFailed)
    /\ \E j \in DOMAIN users : j # last.id /\ users[j].external_id = last.s

\* another user carries external identifier ext
InUseByOther(id, ext) == \E j \in DOMAIN users : j # id /\ users[j].external_id = ext

\* C7: every create, and every update that sets it, that would give a second
\* user an external identifier in use fails, is answered 409, and changes no
\* stored row.
C7_DuplicateIsConflict ==
    [][\A c \in Callers, ext \in ExternalIDs :
          /\ (CreateUser(c, ext) /\ InUseByOther(0, ext))
                => (last'.err # Nil /\ last'.status = StatusConflict /\ users' = users)
          /\ (/\ UpdateUserExec(c)
              /\ pc[c].req.external_id = ext
              /\ pc[c].u \in DOMAIN users
              /\ InUseByOther(pc[c].u, ext))
                => (last'.err # Nil /\ last'.status = StatusConflict /\ users' = users)]_vars

\* C8: after delete of a RoomType succeeds, every room is still stored, with
\* its other columns as they were, and none references the deleted RoomType.
C8_DeleteRoomTypeClearsReference ==
    [][\A c \in Callers, t \in RoomTypeIds :
          (DeleteRoomType(c, t) /\ t \in DOMAIN room_types)
          => /\ last'.err = Nil
             /\ DOMAIN rooms' = DOMAIN rooms
             /\ \A i \in DOMAIN rooms :
                   /\ rooms'[i].room_type_id # Some(t)
                   /\ rooms'[i].name = rooms[i].name
                   /\ rooms'[i].description = rooms[i].description]_vars

\* C9: remove(u, r) on a stored pair succeeds and deletes that pair and no
\* other row; on a pair that is not stored it fails with the not-assigned
\* error, answered 404, and changes nothing.
C9_RemoveExactlyThatPair ==
    [][\A c \in Callers, u \in UserIds, r \in RoomIds :
          RemoveUserFromRoom(c, u, r)
          => /\ last'.op = "RemoveUserFromRoom" /\ last'.id = u /\ last'.rid = r
             /\ users' = users /\ rooms' = rooms
             /\ IF Pairs(u, r) # {}
                THEN /\ last'.err = Nil
                     /\ user_rooms' \subseteq user_rooms
                     /\ \A x \in user_rooms :
                           x \in user_rooms' <=> ~(x.user_id = u /\ x.room_id = r)
                ELSE /\ last'.err = ErrNotAssigned
                     /\ last'.status = StatusNotFound
                     /\ user_rooms' = user_rooms]_vars

\* C9 witness: a remove has succeeded and another pair of the same user or
\* of the same room is still stored.
C9_Witness ==
    /\ last.op = "RemoveUserFromRoom"
    /\ last.err = Nil
    /\ Pairs(last.id, last.rid) = {}
    /\ \E x \in user_rooms : x.user_id = last.id \/ x.room_id = last.rid

\* C10: removeAllForUser(u) removes every pair whose user is u and no pair
\* of another user; it fails with the not-assigned error exactly when u had
\* no pair when it was called.
C10_RemoveAllOnlyThatUser ==
    [][\A c \in Callers, u \in UserIds :
          RemoveUserFromAllRooms(c, u)
          => /\ last'.op = "RemoveUserFromAllRooms" /\ last'.id = u
             /\ user_rooms' \subseteq user_rooms
             /\ \A x \in user_rooms : x \in user_rooms' <=> x.user_id # u
             /\ (last'.err # Nil) <=> ~(\E x \in user_rooms : x.user_id = u)
             /\ (last'.err # Nil) => Contains(last'.err, "not assigned")]_vars

\* C10 witness: a bulk remove has succeeded and a pair of another user is
\* still stored.
C10_Witness ==
    /\ last.op = "RemoveUserFromAllRooms"
    /\ last.err = Nil
    /\ ~(\E x \in user_rooms : x.user_id = last.id)
    /\ user_rooms # {}

\* C11: once delete(id) of a User, a Room or a RoomType has succeeded,
\* GetByID(id) on that table fails with the entity's not-found error.
C11_DeletedIsNotFound ==
    [][\A c \in Callers :
          /\ \A id \in UserIds :
                (DeleteUser(c, id) /\ last'.err = Nil)
                => \A got \in UserGetByID(users', id) : got.err = ErrUserNotFound
          /\ \A id \in RoomIds :
                (DeleteRoom(c, id) /\ last'.err = Nil)
                => \A got \in RoomGetByID(rooms', id) : got.err = ErrRoomNotFound
          /\ \A id \in RoomTypeIds :
                (DeleteRoomType(c, id) /\ last'.err = Nil)
                => \A got \in RoomTypeGetByID(room_types', id) :
                      got.err = ErrRoomTypeNotFound]_vars

\* C11 witness: a get of a room id that was handed out and then deleted has
\* answered not found, while a user and a room type are stored.
C11_Witness ==
    /\ last.op = "GetRoom"
    /\ last.id <= seq.rooms /\ last.id \notin DOMAIN rooms
    /\ last.err = ErrRoomNotFound
    /\ last.status = StatusNotFound
    /\ users # <<>> /\ room_types # <<>>

\* C12: when create succeeds, GetByID on the id of the record it returned
\* succeeds with a record equal to it in every field (timestamps as
\* instants), for users, rooms and room types.
C12_GetReturnsCreated ==
    [][\A c \in Callers :
          /\ \A ext \in ExternalIDs :
                (CreateUser(c, ext) /\ last'.err = Nil)
                => \A got \in UserGetByID(users', last'.rec[1].id) :
                      got.err = Nil /\ got.rec = last'.rec[1]
          /\ \A name \in RoomNames, d \in Descriptions,
                rt \in {NULL} \cup {Some(t) : t \in RoomTypeIds} :
                (CreateRoom(c, name, d, rt) /\ last'.err = Nil)
                => \A got \in RoomGetByID(rooms', last'.rec[1].id) :
                      got.err = Nil /\ got.rec = last'.rec[1]
          /\ \A size \in Sizes, style \in Styles :
                (CreateRoomType(c, size, style) /\ last'.err = Nil)
                => \A got \in RoomTypeGetByID(room_types', last'.rec[1].id) :
                      got.err = Nil /\ got.rec = last'.rec[1]]_vars

\* C12 witness: on D1, where timestamps come back as strings, a get has
\* returned a stored room with its reference, as it was created.
C12_Witness ==
    /\ driver = "cfd1"
    /\ last.op = "GetRoom" /\ last.err = Nil
    /\ last.id \in DOMAIN rooms
    /\ rooms[last.id].room_type_id # NULL
    /\ rooms[last.id].created_at = 1
    /\ last.rec = <<[id |-> last.id,
                     name |-> rooms[last.id].name,
                     description |-> rooms[last.id].description,
                     room_type_id |-> rooms[last.id].room_type_id,
                     created_at |-> rooms[last.id].created_at,
                     updated_at |-> rooms[last.id].updated_at]>>

\* the value a row carries for the column named col
ColumnValue(row, col) == row[CHOOSE i \in 1..Len(row) : row[i].col = col].val

\* the row's columns arrive in the order the SELECT declares
Declared(row, names) ==
    Len(row) = Len(names) /\ \A i \in 1..Len(row) : row[i].col = names[i]

\* the row with its columns (names together with values) in order p
Permuted(row, p) == [i \in 1..Len(row) |-> row[p[i]]]

AllUserOrders == Orderings(4)
AllRoomOrders == Orderings(6)

\* C16: with name-indexed scanning (a handle that reports its columns), the
\* record scanned from a row is the same for every ordering of the row's
\* columns.
C16_ColumnOrderImmaterial ==
    /\ (last.op = "scanUser" /\ last.s = "*sql.Rows")
          => \A p \in AllUserOrders :
                scanUserWithColumns(Permuted(last.row, p), ZeroUser)
                    = Scanned(last.err, last.rec[1])
    /\ (last.op = "scanRoom" /\ last.s = "*sql.Rows")
          => \A p \in AllRoomOrders :
                scanRoomWithColumns(Permuted(last.row, p), ZeroRoom)
                    = Scanned(last.err, last.rec[1])

\* C16 witness: a users row whose columns arrived out of the declared order
\* was scanned by name into the record its values describe.
C16_Witness ==
    /\ last.op = "scanUser" /\ last.s = "*sql.Rows"
    /\ last.row[1].col = "updated_at" /\ last.row[4].col = "id"
    /\ ColumnValue(last.row, "id") = WInt64(1)
    /\ ColumnValue(last.row, "external_id") = WString("ext-1")
    /\ ColumnValue(last.row, "created_at") = WTime(0)
    /\ ColumnValue(last.row, "updated_at") = WTime(1)
    /\ last.rec = <<[id |-> 1, external_id |-> "ext-1",
                     created_at |-> 0, updated_at |-> 1]>>

\* the wire value cannot be normalized to the column's type: a timestamp
\* text that matches no format or a timestamp of another shape, an integer
\* column that carries neither an integer nor a float, a string column that
\* carries no text
Unnormalizable(col, val) ==
    CASE col \in {"created_at", "updated_at"} ->
            \/ val.t \in {"string", "[]byte"} /\ ParseFormats(val.s) = <<>>
            \/ val.t \in {"bool", "int64", "float64"}
      [] col \in {"id", "room_type_id"} ->
            val.t \in {"bool", "string", "[]byte", "time.Time"}
      [] OTHER ->
            val.t \in {"bool", "int64", "float64", "time.Time"}

\* C17: the scan of a row one of whose fields cannot be normalized fails
\* with an error, under either scanning strategy.
C17_UnnormalizableFieldFailsScan ==
    /\ (last.op = "scanUser"
        /\ (last.s = "*sql.Rows" \/ Declared(last.row, UserColumnNames))
        /\ \E i \in 1..Len(last.row) : Unnormalizable(last.row[i].col, last.row[i].val))
          => last.err # Nil
    /\ (last.op = "scanRoom"
        /\ (last.s = "*sql.Rows" \/ Declared(last.row, RoomColumnNames))
        /\ \E i \in 1..Len(last.row) : Unnormalizable(last.row[i].col, last.row[i].val))
          => last.err # Nil

\* C18: a rooms row whose room_type_id is nil on the wire, scanned without
\* error into a fresh Room, gives a Room whose RoomTypeID is absent, under
\* the name-indexed strategy and (columns in the declared order) under the
\* positional one.
C18_NilReferenceIsAbsent ==
    (/\ last.op = "scanRoom"
     /\ last.s = "*sql.Rows" \/ Declared(last.row, RoomColumnNames)
     /\ ColumnValue(last.row, "room_type_id") = WNil
     /\ last.err = Nil)
        => last.rec[1].room_type_id = NULL

\* C18 witness: the positional strategy has scanned a row with a nil
\* reference.
C18_Witness ==
    /\ last.op = "scanRoom" /\ last.s = "*sql.Row"
    /\ Declared(last.row, RoomColumnNames)
    /\ ColumnValue(last.row, "room_type_id") = WNil
    /\ last.err = Nil
    /\ last.rec[1].room_type_id = NULL
    /\ last.rec[1].name = "A"

\* C19: a row scanned without error gives every integer column that carries
\* an int64 or an integral float64 that integer: the id of a user or room,
\* and the RoomType reference, which is then present; under either strategy
\* (columns in the declared order for the positional one).
C19_IntegersNormalized ==
    /\ (/\ last.op = "scanUser"
        /\ last.s = "*sql.Rows" \/ Declared(last.row, UserColumnNames)
        /\ last.err = Nil
        /\ ColumnValue(last.row, "id").t \in {"int64", "float64"})
          => last.rec[1].id = ColumnValue(last.row, "id").n
    /\ (/\ last.op = "scanRoom"
        /\ last.s = "*sql.Rows" \/ Declared(last.row, RoomColumnNames)
        /\ last.err = Nil)
          => /\ ColumnValue(last.row, "id").t \in {"int64", "float64"}
                   => last.rec[1].id = ColumnValue(last.row, "id").n
             /\ ColumnValue(last.row, "room_type_id").t \in {"int64", "float64"}
                   => last.rec[1].room_type_id
                          = Some(ColumnValue(last.row, "room_type_id").n)

\* what a column holds after an update whose request carries v for it: v
\* when v is present, and what it held before otherwise
Applied(present, v, before) == IF present THEN v ELSE before

\* every row of tbl other than row id is in after as it is in tbl
OthersKept(tbl, after, id) ==
    /\ DOMAIN after = DOMAIN tbl
    /\ \A j \in DOMAIN tbl \ {id} : after[j] = tbl[j]

\* C13: the UPDATE statement of an update sets each column whose request
\* field is non-empty (strings) or greater than zero (the reference) to the
\* request's value and leaves every other column of the row, created_at
\* included, every other row and every other table as they were; a column
\* that was not empty is not empty afterwards. (updated_at is the one column
\* every update refreshes.)
C13_UpdateChangesOnlyPresentFields ==
    [][\A c \in Callers :
          /\ (UpdateUserExec(c) /\ pc'[c].op = "UpdateUser.get") =>
                LET id == pc[c].u
                    req == pc[c].req IN
                /\ users'[id].external_id
                      = Applied(req.external_id # "", req.external_id, users[id].external_id)
                /\ users[id].external_id # "" => users'[id].external_id # ""
                /\ users'[id].created_at = users[id].created_at
                /\ OthersKept(users, users', id)
                /\ UNCHANGED <<rooms, room_types, user_rooms, seq>>
          /\ (UpdateRoomExec(c) /\ pc'[c].op = "UpdateRoom.get") =>
                LET id == pc[c].u
                    req == pc[c].req IN
                /\ rooms'[id].name = Applied(req.name # "", req.name, rooms[id].name)
                /\ rooms'[id].description
                      = Applied(req.description # "", req.description, rooms[id].description)
                /\ rooms'[id].room_type_id
                      = Applied(req.room_type_id # NULL /\ req.room_type_id # Some(0),
                                req.room_type_id, rooms[id].room_type_id)
                /\ rooms[id].name # "" => rooms'[id].name # ""
                /\ rooms[id].description # "" => rooms'[id].description # ""
                /\ rooms[id].room_type_id # NULL => rooms'[id].room_type_id # NULL
                /\ rooms'[id].created_at = rooms[id].created_at
                /\ OthersKept(rooms, rooms', id)
                /\ UNCHANGED <<users, room_types, user_rooms, seq>>
          /\ (UpdateRoomTypeExec(c) /\ pc'[c].op = "UpdateRoomType.get") =>
                LET id == pc[c].u
                    req == pc[c].req IN
                /\ room_types'[id].size = Applied(req.size # "", req.size, room_types[id].size)
                /\ room_types'[id].style
                      = Applied(req.style # "", req.style, room_types[id].style)
                /\ room_types[id].size # "" => room_types'[id].size # ""
                /\ room_types[id].style # "" => room_types'[id].style # ""
                /\ room_types'[id].created_at = room_types[id].created_at
                /\ OthersKept(room_types, room_types', id)
                /\ UNCHANGED <<users, rooms, user_rooms, seq>>]_vars

\* an update of a room that names a description and nothing else has been
\* applied: the description is the request's, the name and the reference
\* are the ones the row had
C13_Witness ==
    \E c \in Callers :
        /\ pc[c].op = "UpdateRoom.get"
        /\ pc[c].req.name = ""
        /\ pc[c].req.room_type_id = NULL
        /\ pc[c].req.description # ""
        /\ pc[c].old[1].description # pc[c].req.description
        /\ rooms[pc[c].u].description = pc[c].req.description
        /\ rooms[pc[c].u].name = pc[c].old[1].name
        /\ rooms[pc[c].u].room_type_id = pc[c].old[1].room_type_id
        /\ pc[c].old[1].room_type_id # NULL

\* C14: every UPDATE statement an update applies leaves the row's updated_at
\* strictly greater than the value the row held before it, for users, rooms
\* and room types, whatever the request names and however the callers'
\* steps interleave.
C14_UpdatedAtStrictlyIncreases ==
    [][\A c \in Callers :
          /\ (UpdateUserExec(c) /\ pc'[c].op = "UpdateUser.get")
                => users'[pc[c].u].updated_at > users[pc[c].u].updated_at
          /\ (UpdateRoomExec(c) /\ pc'[c].op = "UpdateRoom.get")
                => rooms'[pc[c].u].updated_at > rooms[pc[c].u].updated_at
          /\ (UpdateRoomTypeExec(c) /\ pc'[c].op = "UpdateRoomType.get")
                => room_types'[pc[c].u].updated_at > room_types[pc[c].u].updated_at]_vars

\* C15: when an update returns a failure to its caller, the row it names,
\* updated_at included, is as it was before the call: a failure of the
\* UPDATE statement changes no row, and at a failure of the read that
\* follows the row is the one the UPDATE statement found.
C15_FailedUpdateLeavesRow ==
    [][\A c \in Callers :
          /\ (UpdateUserExec(c) /\ pc'[c] = Idle) => (last'.err # Nil /\ users' = users)
          /\ (UpdateRoomExec(c) /\ pc'[c] = Idle) => (last'.err # Nil /\ rooms' = rooms)
          /\ (UpdateRoomTypeExec(c) /\ pc'[c] = Idle)
                => (last'.err # Nil /\ room_types' = room_types)
          /\ (UpdateUserGet(c) /\ last'.err # Nil /\ pc[c].u \in DOMAIN users)
                => users'[pc[c].u] = pc[c].old[1]
          /\ (UpdateRoomGet(c) /\ last'.err # Nil /\ pc[c].u \in DOMAIN rooms)
                => rooms'[pc[c].u] = pc[c].old[1]
          /\ (UpdateRoomTypeGet(c) /\ last'.err # Nil /\ pc[c].u \in DOMAIN room_types)
                => room_types'[pc[c].u] = pc[c].old[1]]_vars

\* the kinds of a repository failure
IsNotFound(err) == err \in {ErrUserNotFound, ErrRoomNotFound, ErrRoomTypeNotFound}
IsConflict(err) == err # Nil /\ err[Len(err)] = UniqueFailed

\* C20: a repository failure that is neither NotFound nor Conflict (a
\* driver fault, a constraint of another kind, a scan error) is answered by
\* the handler with 500, whatever its message says.
C20_FaultIsInternalError ==
    (/\ last.err # Nil
     /\ last.status # NoStatus
     /\ ~IsNotFound(last.err)
     /\ ~IsConflict(last.err))
        => last.status = StatusInternalServerError

\* the faults of a query, as a call returns them
IsQueryFault(err) == Len(err) = 2 /\ err[2] \in DriverFaults

\* the ids of the records res, in their order
IdsOf(res) == [i \in DOMAIN res |-> res[i].id]

C22_UserRoomsExactAndOrdered ==
    last.op = "GetUserRooms" =>
        IF last.err # Nil THEN IsQueryFault(last.err)
        ELSE LET res == last.rec[1]
                 assigned == {r \in DOMAIN rooms :
                                 \E x \in user_rooms :
                                     x.user_id = last.id /\ x.room_id = r} IN
             /\ {res[i].id : i \in DOMAIN res} = assigned
             /\ Len(res) = Cardinality(assigned)
             /\ \A i \in DOMAIN res : res[i].name = rooms[res[i].id].name
             /\ \A i, j \in DOMAIN res :
                   i < j => TextRank(res[i].name) <= TextRank(res[j].name)

\* a user's rooms were returned, room 2 (named "A") before room 1 (named "B")
C22_Witness ==
    /\ last.op = "GetUserRooms"
    /\ last.err = Nil
    /\ Len(last.rec[1]) = 2
    /\ IdsOf(last.rec[1]) = <<2, 1>>
    /\ last.rec[1][1].name # last.rec[1][2].name

\* the rows tbl holds, most recently created first: the orders that is
IsCreatedDescending(o, tbl) ==
    /\ Len(o) = Cardinality(DOMAIN tbl)
    /\ {o[i] : i \in DOMAIN o} = DOMAIN tbl
    /\ \A i, j \in DOMAIN o : i < j => tbl[o[i]].created_at >= tbl[o[j]].created_at

\* res is the rows at positions offset .. offset + limit - 1 (counted from
\* 0) of an order of tbl, most recently created first
IsPage(res, tbl, limit, offset) ==
    \E o \in [1..Cardinality(DOMAIN tbl) -> DOMAIN tbl] :
        /\ IsCreatedDescending(o, tbl)
        /\ Len(res) <= limit
        /\ \A i \in 1..Len(res) : offset + i <= Len(o) /\ res[i].id = o[offset + i]
        /\ \A k \in 1..Len(o) : (k > offset /\ k <= offset + limit) => k - offset <= Len(res)

\* C23: List(limit, offset) with non-negative bounds returns, when its
\* query does not fail, the rows at positions offset through
\* offset + limit - 1 of the stored rows in descending order of created_at:
\* at most limit rows, none when the window holds no row; it fails only
\* with a fault of the query. (Stated on the result of the call and the
\* table it read; last.id is the limit, last.rid the offset.)
C23_ListReturnsWindow ==
    /\ last.op = "ListUsers" =>
          IF last.err # Nil THEN IsQueryFault(last.err)
          ELSE IsPage(last.rec[1], users, last.id, last.rid)
    /\ last.op = "ListRooms" =>
          IF last.err # Nil THEN IsQueryFault(last.err)
          ELSE IsPage(last.rec[1], rooms, last.id, last.rid)

\* the second page of one row was returned: the user created first, the
\* other user being more recent
C23_Witness ==
    /\ last.op = "ListUsers"
    /\ last.err = Nil
    /\ last.id = 1
    /\ last.rid = 1
    /\ IdsOf(last.rec[1]) = <<1>>
    /\ DOMAIN users = {1, 2}
    /\ users[1].created_at < users[2].created_at

\* C24: every stored room has a non-empty name: a POST /rooms with an empty
\* name is answered 400 and stores nothing, and every step leaves every
\* stored room with a non-empty name.
C24_RoomNameNeverEmpty ==
    [][/\ \A id \in DOMAIN rooms' : rooms'[id].name # ""
       /\ \A c \in Callers, d \in Descriptions \cup UpdateDescriptions :
             CreateRoom(c, "", d, NULL)
                => (last'.status = StatusBadRequest /\ UNCHANGED tables)]_vars

\* an update of a room whose request has no name has been applied, after a
\* create with an empty name was rejected
C24_Witness ==
    \E c \in Callers :
        /\ pc[c].op = "UpdateRoom.get"
        /\ pc[c].req.name = ""
        /\ pc[c].req.description # ""
        /\ rooms[pc[c].u].description = pc[c].req.description
        /\ rooms[pc[c].u].name # ""
        /\ last.op = "CreateRoom"
        /\ last.s = ""
        /\ last.status = StatusBadRequest

\* C25: in every reachable state every row of user_rooms names a stored
\* user and a stored room, whatever assigns and deletes ran and however
\* their steps interleaved.
C25_JoinRowsReferenceExisting ==
    \A x \in user_rooms : x.user_id \in DOMAIN users /\ x.room_id \in DOMAIN rooms

\* C26: of two assign(u, r) calls on a stored user and a stored room that
\* both found the pair unassigned, the one whose INSERT runs first succeeds
\* and stores the pair, and the other's INSERT then fails and stores
\* nothing; a call whose check runs after the other's INSERT fails at the
\* check. So exactly one of the two succeeds, in every interleaving.
C26_ExactlyOneAssignSucceeds ==
    [][\A c \in Callers :
          /\ (/\ AssignInsert(c)
              /\ pc[c].u \in DOMAIN users
              /\ pc[c].r \in DOMAIN rooms
              /\ Pairs(pc[c].u, pc[c].r) = {})
                => /\ last'.err = Nil
                   /\ Cardinality({x \in user_rooms' :
                                      x.user_id = pc[c].u /\ x.room_id = pc[c].r}) = 1
          /\ (AssignInsert(c) /\ Pairs(pc[c].u, pc[c].r) # {})
                => /\ last'.err # Nil
                   /\ user_rooms' = user_rooms
          /\ \A u \in UserIds, r \in RoomIds :
                (AssignCheck(c, u, r) /\ Pairs(u, r) # {})
                   => (last'.err # Nil /\ pc'[c] = Idle /\ user_rooms' = user_rooms)]_vars

\* both calls passed the check on the unassigned pair; one has inserted
\* and the other's INSERT has failed, the pair being stored once
C26_Witness ==
    /\ last.op = "AssignUserToRoom"
    /\ Contains(last.err, UniqueFailed)
    /\ last.id \in DOMAIN users
    /\ last.rid \in DOMAIN rooms
    /\ Cardinality(Pairs(last.id, last.rid)) = 1
    /\ \A c \in Callers : pc[c] = Idle

\* C27: the record a successful create or update returns carries every
\* value its request set, whatever other callers did to the row between the
\* call's write and its read.
C27_ReturnedRecordCarriesRequest ==
    [][\A c \in Callers :
          /\ \A ext \in ExternalIDs :
                (CreateUser(c, ext) /\ last'.err = Nil)
                   => last'.rec[1].external_id = ext
          /\ (UpdateUserGet(c) /\ last'.err = Nil /\ pc[c].req.external_id # "")
                => last'.rec[1].external_id = pc[c].req.external_id
          /\ (UpdateRoomGet(c) /\ last'.err = Nil)
                => /\ pc[c].req.name # "" => last'.rec[1].name = pc[c].req.name
                   /\ pc[c].req.description # ""
                         => last'.rec[1].description = pc[c].req.description
          /\ (UpdateRoomTypeGet(c) /\ last'.err = Nil /\ pc[c].req.size # "")
                => last'.rec[1].size = pc[c].req.size]_vars

\* C28: of two callers that update the same row, each fields the other
\* leaves empty, a caller's UPDATE statement keeps what the other's has
\* set, and the row carries a caller's values when its update returns
\* success: once both have returned, the row carries the values of both.
C28_DisjointUpdatesBothApply ==
    [][\A c \in Callers :
          /\ (UpdateRoomExec(c) /\ pc'[c].op = "UpdateRoom.get") =>
                /\ pc[c].req.name = "" => rooms'[pc[c].u].name = rooms[pc[c].u].name
                /\ pc[c].req.description = ""
                      => rooms'[pc[c].u].description = rooms[pc[c].u].description
          /\ (UpdateRoomGet(c) /\ last'.err = Nil) =>
                /\ pc[c].req.name # "" => rooms'[pc[c].u].name = pc[c].req.name
                /\ pc[c].req.description # ""
                      => rooms'[pc[c].u].description = pc[c].req.description
          /\ (UpdateRoomTypeExec(c) /\ pc'[c].op = "UpdateRoomType.get") =>
                /\ pc[c].req.size = ""
                      => room_types'[pc[c].u].size = room_types[pc[c].u].size
                /\ pc[c].req.style = ""
                      => room_types'[pc[c].u].style = room_types[pc[c].u].style
          /\ (UpdateRoomTypeGet(c) /\ last'.err = Nil) =>
                /\ pc[c].req.size # "" => room_types'[pc[c].u].size = pc[c].req.size
                /\ pc[c].req.style # ""
                      => room_types'[pc[c].u].style = pc[c].req.style]_vars

\* both callers' UPDATE statements on the room type have been applied
\* before either read the row back, and the row carries the size of the one
\* and the style of the other
C28_Witness ==
    /\ pc["c1"].op = "UpdateRoomType.get"
    /\ pc["c2"].op = "UpdateRoomType.get"
    /\ room_types[1].size = pc["c1"].req.size
    /\ room_types[1].style = pc["c2"].req.style
    /\ pc["c1"].old[1].style # room_types[1].style

\* two scans have the same outcome: both fail, or both give the same record
SameOutcome(a, b) ==
    \/ a.err # Nil /\ b.err # Nil
    \/ a.err = Nil /\ b.err = Nil /\ a.rec = b.rec

\* C29: a row whose columns arrive in the declared order, scanned by
\* position, has the outcome the scan by column name has of it: both fail,
\* or both give records equal in every field.
C29_StrategiesAgree ==
    /\ (last.op = "scanUser" /\ last.s = "*sql.Row" /\ Declared(last.row, UserColumnNames))
          => SameOutcome([err |-> last.err, rec |-> last.rec[1]],
                         scanUser("*sql.Rows", last.row, ZeroUser))
    /\ (last.op = "scanRoom" /\ last.s = "*sql.Row" /\ Declared(last.row, RoomColumnNames))
          => SameOutcome([err |-> last.err, rec |-> last.rec[1]],
                         scanRoom("*sql.Rows", last.row, ZeroRoom))

\* the ids of table tbl that were handed out and are stored no more
Deleted(tbl, counter) == (1..counter) \ DOMAIN tbl

\* C30: an id that was handed out and whose row was deleted is never
\* stored again, for users, rooms and room types: no create returns it, and
\* a get of it answers not found unless its query fails.
C30_IdsNeverReused ==
    [][/\ Deleted(users, seq.users) \subseteq Deleted(users', seq'.users)
       /\ Deleted(rooms, seq.rooms) \subseteq Deleted(rooms', seq'.rooms)
       /\ Deleted(room_types, seq.room_types) \subseteq Deleted(room_types', seq'.room_types)
       /\ (last' # last /\ last'.op = "CreateUser")
             => last'.id \notin Deleted(users, seq.users)
       /\ (last' # last /\ last'.op = "CreateRoom")
             => last'.id \notin Deleted(rooms, seq.rooms)
       /\ (last' # last /\ last'.op = "CreateRoomType")
             => last'.id \notin Deleted(room_types, seq.room_types)
       /\ (last' # last /\ last'.op = "GetUser" /\ last'.id \in Deleted(users, seq.users))
             => (last'.err = ErrUserNotFound \/ IsQueryFault(last'.err))
       /\ (last' # last /\ last'.op = "GetRoom" /\ last'.id \in Deleted(rooms, seq.rooms))
             => (last'.err = ErrRoomNotFound \/ IsQueryFault(last'.err))
       /\ (last' # last /\ last'.op = "GetRoomType" /\ last'.id \in Deleted(room_types, seq.room_types))
             => (last'.err = ErrRoomTypeNotFound \/ IsQueryFault(last'.err))]_vars

\* user 1 was deleted and the create that followed returned id 2
C30_Witness ==
    /\ last.op = "CreateUser"
    /\ last.err = Nil
    /\ last.id = 2
    /\ DOMAIN users = {2}
    /\ users[2].created_at > 0

====
